---- MODULE Spec2Model ----
(***************************************************************************)
(* kar98k: the run-mode daemon (trigger / pause / stop), the pulse         *)
(* controller's ramp-up, control and generate tasks, the pattern engine's  *)
(* CalculateTPS, the worker pool with its rate limiter and job queue, and  *)
(* the health checker.                                                     *)
(*                                                                         *)
(* Rates are float64 in the source.  Here a rate is an integer number of   *)
(* 1/Scale transactions per second; multipliers are integers in tenths.    *)
(* A base rate given in tenths of a TPS times three multipliers in tenths  *)
(* is then an exact integer, so comparisons and truncations are those of   *)
(* the source on the same rational values.                                 *)
(***************************************************************************)
EXTENDS Integers, Sequences, FiniteSets, TLC

\* ------------------------------------------------------------------ bounds

\* config.Worker.PoolSize: workers launched by one Pool.Start.
PoolSize == 1
\* config.Worker.QueueSize: capacity of the jobs channel.
QueueSize == 1
\* How many times Trigger may start the components in one run.
MaxTriggers == 2
\* config.Controller.RampUpDuration, in ramp-up ticker periods.
RampTicks == 2
\* How many seconds the clock runs.
MaxTime == 8
\* How many requests are recorded into the analyzer.
MaxRecorded == 2

\* ------------------------------------------------------------ fixed point

Scale == 10 * 10 * 10 * 10

\* n transactions per second.
TPS(n) == n * Scale

\* n tenths of a transaction per second.
TenthTPS(n) == n * (Scale \div 10)

\* x times a multiplier given in tenths.
Times(x, m) == (x * m) \div 10

\* --------------------------------------------------------------- inputs

\* config.Target.Name of the configured targets (validate: at least one).
Targets == {"a", "b"}

\* Runs the model explores: a validated configuration (base_tps > 0,
\* max_tps >= base_tps, pool_size > 0) and what its pattern can produce.
\* sched: values of Scheduler.GetMultiplier; poisson: values of
\* PoissonSpike.Multiplier; noise: values of Noise.Multiplier (all tenths).
Configs ==
  { [base |-> TenthTPS(80), max |-> TPS(50), rampUp |-> TRUE, health |-> TRUE,
     sched |-> {10}, poisson |-> {10, 30}, noise |-> {10}],
    [base |-> TenthTPS(5), max |-> TenthTPS(5), rampUp |-> FALSE, health |-> TRUE,
     sched |-> {10}, poisson |-> {10}, noise |-> {9, 11}],
    [base |-> TPS(200), max |-> TPS(1000), rampUp |-> FALSE, health |-> FALSE,
     sched |-> {5, 10}, poisson |-> {10}, noise |-> {10}] }

\* Values handed to Engine.SetBaseTPS / Engine.SetMaxTPS at runtime.
RuntimeTPS == {0, TenthTPS(5), TPS(1), TPS(20), TPS(50), TPS(1000)}

\* config.Poisson of a generator that is switched off (validate checks
\* nothing of it then); durations are in seconds, factors in thousandths.
PoissonOff ==
  [Enabled |-> FALSE, SpikeFactor |-> 2000, RampUp |-> 1, RampDown |-> 2,
   MinInterval |-> 1, MaxInterval |-> 1]

\* The configurations the spike generator is run on: spike_factor >= 1.
PoissonConfigs ==
  { PoissonOff,
    [Enabled |-> TRUE, SpikeFactor |-> 3000, RampUp |-> 1, RampDown |-> 2,
     MinInterval |-> 1, MaxInterval |-> 2] }

\* Arguments of TriggerManualSpike: factor (thousandths; 0: the configured
\* one) and duration (seconds; 0: ramp_up + ramp_down).  Both are signed in
\* the source and nothing checks them.
ManualFactors == {0, 4000, 0 - 2000}
ManualDurations == {0, 3, 6, 0 - 3}

\* Multipliers CalculateTPS is evaluated on (tenths).
SchedMults == {0, 5, 10, 20}
PoissonMults == {10, 15, 30}
NoiseMults == {9, 10, 11}

VARIABLES
  cfg,          \* the frozen configuration of the run
  baseTPS,      \* Engine.baseTPS
  maxTPS,       \* Engine.maxTPS
  lastTPS,      \* the value the latest CalculateTPS returned (0: none yet)
  lastMax,      \* the maxTPS that call read
  limit,        \* Pool.limiter: its rate limit
  burst,        \* Pool.limiter: its burst
  srPc,         \* Pool.SetRate in progress: "idle", "limit", "burst"
  srTps,        \* the argument of the SetRate in progress
  srBy,         \* the task inside SetRate: <<"none", 0>>, <<"control", 0>>, <<"ramp", g>>
  triggered,    \* Daemon.status.Triggered
  nStarts,      \* how many times Trigger started the components
  ctxDone,      \* Daemon.ctx is cancelled (and with it every child context)
  stopPc,       \* Daemon.Stop: the call in progress
  stopped,      \* a Daemon.Stop has returned
  rampLeft,     \* per ramp-up task: ticker periods until RampUpDuration, -1: no task
  nControl,     \* live controlLoop goroutines
  genPc,        \* per generateLoop goroutine: where it is
  genTarget,    \* per generateLoop goroutine: the target it selected
  wIdle,        \* workers in the select of Pool.worker
  wWait,        \* workers in limiter.Wait, holding a job
  wActive,      \* workers executing a request (Pool.active)
  jobs,         \* Pool.jobs: the buffered channel's content
  jobsClosed,   \* Pool.jobs was closed
  statuses,     \* Checker.statuses; a missing key reads false, as in Go
  nCheckers,    \* live Checker.run goroutines
  lastSubmit,   \* what the latest Pool.Submit returned: "none", "accepted", "rejected"
  abandoned,    \* an accepted job was dropped without being executed
  drainExpired, \* Pool.Drain gave up at its deadline
  fatal,        \* the panic or fatal error that ended the process, or "none"
  now,          \* the wall clock, in seconds
  poissonCfg,   \* PoissonSpike.cfg
  spiking,      \* PoissonSpike.spiking
  spikeStart,   \* PoissonSpike.spikeStart
  spikePeak,    \* PoissonSpike.spikePeak
  spikeEnd,     \* PoissonSpike.spikeEnd
  nextSpikeTime,       \* PoissonSpike.nextSpikeTime
  scheduledAt,         \* when scheduleNextSpike set it
  manualSpike,         \* PoissonSpike.manualSpike
  manualSpikeFactor,   \* PoissonSpike.manualSpikeFactor (thousandths)
  manualSpikeDuration, \* PoissonSpike.manualSpikeDuration
  lastMult,     \* what the latest PoissonSpike.Multiplier returned (thousandths)
  multAt,       \* when that call was made, -1: no call yet
  latencies,     \* Analyzer.latencies (ms)
  timestamps,    \* Analyzer.timestamps
  totalRequests, \* Analyzer.totalRequests
  totalErrors,   \* Analyzer.totalErrors
  snapshot,      \* the latest Analyzer.TakeSnapshot, NoSnapshot before it
  dCfg,           \* discovery Controller.cfg, with the simulated target
  state,          \* discovery Controller.state
  result,         \* discovery Controller.result, NoResult for nil
  dCtxDone,       \* the context of the discovery run is cancelled
  dPc,            \* where the goroutine of Controller.run is
  currentTPS,     \* discovery Controller.currentTPS
  lowTPS,         \* discovery Controller.lowTPS
  highTPS,        \* discovery Controller.highTPS
  lastStableTPS,  \* discovery Controller.lastStableTPS
  breakingTPS,    \* discovery Controller.breakingTPS
  stepsCompleted, \* discovery Controller.stepsCompleted
  stepTPS,        \* runStep's tps
  completeCalls,  \* how many times the completion callback was invoked
  tested,         \* the steps run so far: <<rate, judged stable>>
  cancelledInStep, \* the cancellation fired while a step was in progress
  completedReqs,  \* requests the pool completed during the discovery run
  completedErrs,  \* how many of them failed
  dFatal,         \* the panic that ended the discovery process, or "none"
  progress,       \* discovery Controller.progress (tenths of a percent)
  startRequests,  \* runStep's startRequests
  startErrors,    \* runStep's startErrors
  earlierPc,      \* where the goroutine of an earlier, stopped Controller.run is
  restarts,       \* how many times Start began a run after the first
  grpcVia,        \* who made the latest gRPC call: "none", "pool", "health"
  grpcOutcome,    \* what the server answered to it
  grpcResp,       \* the protocol.Response GRPCClient.Do returned for it
  requestsTotal,  \* Metrics.RequestsTotal, per status label
  lastLabel,      \* the status label of the latest Metrics.RecordRequest
  targetHealthy,  \* Checker.statuses of the gRPC target
  schedule,       \* Scheduler.schedule
  schedVia,       \* the latest Scheduler call: "none", "GetMultiplier", "GetMultiplierForHour"
  hourArg,        \* its hour: time.Now().Hour(), or the argument
  hourMult,       \* what it returned (thousandths)
  noiseCfg,       \* Noise.cfg (Amplitude in hundredths)
  currentValue,   \* Noise.currentValue (hundredths)
  targetValue,    \* Noise.targetValue (hundredths)
  velocity,       \* Noise.velocity (hundredths)
  noiseOut,      \* what the latest Noise.Multiplier returned (hundredths), -1: no call yet
  noiseClamped,   \* that call clamped currentValue to a bound
  weightedTargets, \* Controller.weightedTargets: the targets' weights, in order
  totalWeight,    \* Controller.totalWeight
  drawn,          \* the latest rng.Intn(totalWeight) of selectTarget, -1: no call yet
  selected,       \* the index of the target that call returned, 0: config.Target{}
  aWindow,        \* Analyzer.windowDuration (seconds)
  aCap,           \* Analyzer.maxSamples
  snapPc,         \* the getters the TakeSnapshot call in progress has run, 0: no call
  snapPartial,    \* the Snapshot that call is building
  pctData,        \* the data of the latest percentile call
  pctP,           \* its p
  pctOut,         \* what it returned
  pctCalls,       \* how many percentile calls were made
  conns,          \* GRPCClient.conns: per authority the connection cached, 0: none
  opened,         \* per authority, the connections created and not closed
  connPc,         \* per worker, where its getConn call is
  connFor,        \* per worker, the authority of that call
  connFatal,      \* the fatal error of the Go runtime on the map, or "none"
  statusPc,       \* the generator calls the GetStatus in progress has made, 0: no call
  statusUsed,     \* the multipliers its CurrentTPS was computed from
  status          \* the latest pattern.Status returned

\* The state of the run-mode daemon and its components.
runVars == <<cfg, baseTPS, maxTPS, lastTPS, lastMax, limit, burst, srPc, srTps, srBy,
          triggered, nStarts, ctxDone, stopPc, stopped, rampLeft, nControl,
          genPc, genTarget, wIdle, wWait, wActive, jobs, jobsClosed,
          statuses, nCheckers, lastSubmit, abandoned,
          drainExpired, fatal>>

\* The state of the Poisson spike generator and the clock it reads.
spikeVars == <<now, poissonCfg, spiking, spikeStart, spikePeak, spikeEnd,
               nextSpikeTime, scheduledAt, manualSpike, manualSpikeFactor,
               manualSpikeDuration, lastMult, multAt>>

\* The spike generator without the clock.
spikeState == <<poissonCfg, spiking, spikeStart, spikePeak, spikeEnd,
                nextSpikeTime, scheduledAt, manualSpike, manualSpikeFactor,
                manualSpikeDuration, lastMult, multAt>>

\* The state of the discovery analyzer.
analyzerVars == <<latencies, timestamps, totalRequests, totalErrors, snapshot>>

\* The state of the discovery controller.
discoveryVars == <<dCfg, state, result, dCtxDone, dPc, currentTPS, lowTPS,
                   highTPS, lastStableTPS, breakingTPS, stepsCompleted,
                   stepTPS, completeCalls, tested, cancelledInStep,
                   completedReqs, completedErrs, dFatal, progress,
                   startRequests, startErrors, earlierPc, restarts>>

\* What the first run's steps beside runStep and the range update leave
\* alone of the progress, the step's counters and the later runs.
laterVars == <<progress, startRequests, startErrors, earlierPc, restarts>>

\* The gRPC client's latest call and what the metrics sink and the health
\* checker made of it.
protocolVars == <<grpcVia, grpcOutcome, grpcResp, requestsTotal, lastLabel,
                  targetHealthy>>

\* The components beside the daemon, the spike generator, the analyzer and
\* the discovery controller.
\* The scheduler and its latest call.
schedulerVars == <<schedule, schedVia, hourArg, hourMult>>

\* The noise generator and its latest call.
noiseVars == <<noiseCfg, currentValue, targetValue, velocity, noiseOut,
               noiseClamped>>

\* The weighted target list and the latest selection.
selectVars == <<weightedTargets, totalWeight, drawn, selected>>

\* The analyzer's fields set at construction.
analyzerFields == <<aWindow, aCap>>

\* The TakeSnapshot call in progress.
snapVars == <<snapPc, snapPartial>>

\* The latest percentile call.
pctVars == <<pctData, pctP, pctOut, pctCalls>>

\* The gRPC client's connection cache and the getConn calls in progress.
connVars == <<conns, opened, connPc, connFor, connFatal>>

\* The Engine.GetStatus call in progress and the latest Status.
statusVars == <<statusPc, statusUsed, status>>

extraVars == <<protocolVars, schedulerVars, noiseVars, selectVars,
               analyzerFields, snapVars, pctVars, connVars, statusVars>>

\* The daemon, the spike generator, the analyzer and the discovery controller.
coreVars == <<runVars, spikeVars, analyzerVars, discoveryVars>>

\* What the steps of each of the other components leave alone.
besideProtocol == <<coreVars, schedulerVars, noiseVars, selectVars,
                    analyzerFields, snapVars,
                    pctVars, connVars, statusVars>>
besideScheduler == <<coreVars, protocolVars, noiseVars, selectVars,
                     analyzerFields, snapVars,
                    pctVars, connVars, statusVars>>
besideNoise == <<coreVars, protocolVars, schedulerVars, selectVars,
                 analyzerFields, snapVars,
                    pctVars, connVars, statusVars>>
besideSelect == <<coreVars, protocolVars, schedulerVars, noiseVars,
                  analyzerFields, snapVars,
                    pctVars, connVars, statusVars>>
besideSnapshot == <<runVars, spikeVars, discoveryVars, protocolVars,
                    schedulerVars, noiseVars, selectVars, analyzerFields,
                    pctVars, connVars, statusVars>>

vars == <<runVars, spikeVars, analyzerVars, discoveryVars, extraVars>>

\* What the daemon's own steps leave alone: the configuration and the
\* components driven on their own.
restVars == <<cfg, spikeVars, analyzerVars, discoveryVars, extraVars>>

\* What the spike generator's steps leave alone.
besideSpike == <<runVars, analyzerVars, discoveryVars, extraVars>>

\* What the analyzer's steps leave alone.
besideAnalyzer == <<runVars, spikeVars, discoveryVars, extraVars>>

engineVars == <<baseTPS, maxTPS, lastTPS, lastMax>>
limiterVars == <<limit, burst, srPc, srTps, srBy>>
daemonVars == <<triggered, nStarts, ctxDone, stopPc, stopped>>
taskVars == <<rampLeft, nControl, genPc, genTarget>>
poolVars == <<wIdle, wWait, wActive, jobs, jobsClosed>>
healthVars == <<statuses, nCheckers>>
historyVars == <<lastSubmit, abandoned, drainExpired>>

Gens == 1..MaxTriggers

\* No target selected.
NoTarget == ""

\* ------------------------------------------------------------ the engine

\* CalculateTPS with the clamp to maxTPS left out.
CalculateTPSUncapped(base, max, schedMult, poissonMult, noiseMult) ==
  LET tps == Times(Times(Times(base, schedMult), poissonMult), noiseMult)
  IN IF tps < TPS(1) THEN TPS(1) ELSE tps

\* Engine.CalculateTPS on the engine's base and max and the three multipliers.
CalculateTPS(base, max, schedMult, poissonMult, noiseMult) ==
  LET tps == Times(Times(Times(base, schedMult), poissonMult), noiseMult)
      capped == IF tps > max THEN max ELSE tps
  IN IF capped < TPS(1) THEN TPS(1) ELSE capped

\* ----------------------------------------------------------- the limiter

\* int(tps / 10): Go's conversion truncates toward zero.
BurstOf(tps) == tps \div (10 * Scale)

\* The rate and burst rate.NewLimiter is given in NewPool.
InitialLimit == TPS(100)
InitialBurst == 1

\* Daemon.Start has built the components of the run.
InitRun ==
  /\ cfg \in Configs
  /\ baseTPS = cfg.base
  /\ maxTPS = cfg.max
  /\ lastTPS = 0
  /\ lastMax = 0
  /\ limit = InitialLimit
  /\ burst = InitialBurst
  /\ srPc = "idle"
  /\ srTps = 0
  /\ srBy = <<"none", 0>>
  /\ triggered = FALSE
  /\ nStarts = 0
  /\ ctxDone = FALSE
  /\ stopPc = "none"
  /\ stopped = FALSE
  /\ rampLeft = [g \in Gens |-> -1]
  /\ nControl = 0
  /\ genPc = [g \in Gens |-> "none"]
  /\ genTarget = [g \in Gens |-> NoTarget]
  /\ wIdle = 0
  /\ wWait = 0
  /\ wActive = 0
  /\ jobs = <<>>
  /\ jobsClosed = FALSE
  /\ statuses = [t \in Targets |-> FALSE]
  /\ nCheckers = 0
  /\ lastSubmit = "none"
  /\ abandoned = FALSE
  /\ drainExpired = FALSE
  /\ fatal = "none"

\* scheduleNextSpike's interval with the clamp to min_interval left out.
ScheduleIntervalsNoMin(c) == 0 .. c.MaxInterval

\* scheduleNextSpike's interval: -ln(u)/lambda clamped to min_interval and
\* then to max_interval; any value between them, to the second.
ScheduleIntervals(c) ==
  IF c.MinInterval > c.MaxInterval
  THEN {c.MaxInterval}
  ELSE c.MinInterval .. c.MaxInterval

\* NewPoissonSpike(c) at time 0: idle, the first spike scheduled.
InitPoisson(c) ==
  /\ now = 0
  /\ poissonCfg = c
  /\ spiking = FALSE
  /\ spikeStart = 0
  /\ spikePeak = 0
  /\ spikeEnd = 0
  /\ nextSpikeTime \in {now + i : i \in ScheduleIntervals(c)}
  /\ scheduledAt = now
  /\ manualSpike = FALSE
  /\ manualSpikeFactor = 0
  /\ manualSpikeDuration = 0
  /\ lastMult = 0
  /\ multAt = 0 - 1

\* No snapshot taken yet.
NoSnapshot == [P95Latency |-> 0 - 1]

\* NewAnalyzer: nothing recorded.
InitAnalyzer ==
  /\ latencies = <<>>
  /\ timestamps = <<>>
  /\ totalRequests = 0
  /\ totalErrors = 0
  /\ snapshot = NoSnapshot

\* Discovery rates are integers in units of 1/DScale TPS: the midpoints of
\* the binary search are then exact, as they are in float64.
DScale == 32 * 32 * 32

\* n transactions per second, as a discovery rate.
Rate(n) == n * DScale

\* floor(x * n / d), computed without the large product.
MulDiv(x, n, d) == (x \div d) * n + ((x % d) * n) \div d

\* config.Discovery as executeDiscovery builds it (namely min_tps 10, max_tps
\* 10000, convergence 0.05, P95 limit in ms, error limit in percent), with
\* the rate T above which the simulated target's latency exceeds the limit.
DefaultDiscovery ==
  [MinTPS |-> Rate(10), MaxTPS |-> Rate(10000), ConvergencePct |-> 5,
   LatencyLimitMs |-> 100, ErrorRateLimit |-> 5, T |-> Rate(500)]

\* The discovery runs explored.
DiscoveryConfigs ==
  { DefaultDiscovery,
    [MinTPS |-> Rate(10), MaxTPS |-> Rate(40), ConvergencePct |-> 25,
     LatencyLimitMs |-> 100, ErrorRateLimit |-> 5, T |-> Rate(20)],
    [MinTPS |-> Rate(10), MaxTPS |-> Rate(12), ConvergencePct |-> 25,
     LatencyLimitMs |-> 100, ErrorRateLimit |-> 5, T |-> Rate(11)],
    [MinTPS |-> Rate(10), MaxTPS |-> Rate(40), ConvergencePct |-> 25,
     LatencyLimitMs |-> 100, ErrorRateLimit |-> 5, T |-> Rate(39)],
    [MinTPS |-> Rate(1) \div 2, MaxTPS |-> Rate(2), ConvergencePct |-> 25,
     LatencyLimitMs |-> 100, ErrorRateLimit |-> 5, T |-> Rate(1)],
    [MinTPS |-> Rate(10), MaxTPS |-> Rate(10), ConvergencePct |-> 25,
     LatencyLimitMs |-> 100, ErrorRateLimit |-> 5, T |-> Rate(20)] }

\* Controller.result = nil.
NoResult == [StepsCompleted |-> 0 - 1]

\* discovery.NewController(c, pool, metrics): idle, no result.
InitDiscovery(c) ==
  /\ dCfg = c
  /\ state = "idle"
  /\ result = NoResult
  /\ dCtxDone = FALSE
  /\ dPc = "none"
  /\ currentTPS = 0
  /\ lowTPS = c.MinTPS
  /\ highTPS = c.MaxTPS
  /\ lastStableTPS = 0
  /\ breakingTPS = 0
  /\ stepsCompleted = 0
  /\ stepTPS = 0
  /\ completeCalls = 0
  /\ tested = {}
  /\ cancelledInStep = FALSE
  /\ completedReqs = 0
  /\ completedErrs = 0
  /\ dFatal = "none"
  /\ progress = 0
  /\ startRequests = 0
  /\ startErrors = 0
  /\ earlierPc = "none"
  /\ restarts = 0

\* No gRPC call made yet.
NoOutcome == [kind |-> "none"]

\* protocol.Response before Do fills it: &Response{}.
NoResponse == [StatusCode |-> 0, Error |-> FALSE]

\* Nothing requested, nothing checked.
InitProtocol ==
  /\ grpcVia = "none"
  /\ grpcOutcome = NoOutcome
  /\ grpcResp = NoResponse
  /\ requestsTotal = [l \in {"success", "error"} |-> 0]
  /\ lastLabel = "none"
  /\ targetHealthy = FALSE

\* NewScheduler(nil): no schedule, no call made.
InitScheduler ==
  /\ schedule = <<>>
  /\ schedVia = "none"
  /\ hourArg = 0
  /\ hourMult = 0

\* config.Noise with noise off.
NoiseOff == [Enabled |-> FALSE, Amplitude |-> 10]

\* NewNoise(NoiseOff): at rest, no call made.
InitNoise ==
  /\ noiseCfg = NoiseOff
  /\ currentValue = 0
  /\ targetValue = 0
  /\ velocity = 0
  /\ noiseOut = 0 - 1
  /\ noiseClamped = FALSE

\* The Controller before buildWeightedTargets: no list, no selection.
InitSelect ==
  /\ weightedTargets = <<>>
  /\ totalWeight = 0
  /\ drawn = 0 - 1
  /\ selected = 0

\* NewAnalyzer(5 * time.Second): the sliding window, in seconds.
windowDuration == 5
\* Analyzer.maxSamples.
maxSamples == 100000

\* NewAnalyzer(5 * time.Second), holding at most n samples.
InitFields(n) ==
  /\ aWindow = windowDuration
  /\ aCap = n

\* A Snapshot with nothing filled in.
EmptySnapshot ==
  [P95Latency |-> 0, P99Latency |-> 0, AvgLatency |-> 0, ErrorRate |-> 0,
   TotalRequests |-> 0, TotalErrors |-> 0, SampleCount |-> 0, Timestamp |-> 0]

\* No TakeSnapshot call in progress.
InitSnapshot ==
  /\ snapPc = 0
  /\ snapPartial = EmptySnapshot

\* No percentile call made yet.
InitPercentile ==
  /\ pctData = <<>>
  /\ pctP = 0
  /\ pctOut = 0
  /\ pctCalls = 0

\* Workers of the pool that share one GRPCClient.
ConnWorkers == 1..2

\* The authorities (Request.URL) of the gRPC targets.
Authorities == {"a:443", "b:443"}

\* NewGRPCClient: an empty cache, no call in progress.
InitConn ==
  /\ conns = [a \in Authorities |-> 0]
  /\ opened = [a \in Authorities |-> 0]
  /\ connPc = [w \in ConnWorkers |-> "idle"]
  /\ connFor = [w \in ConnWorkers |-> ""]
  /\ connFatal = "none"

\* No pattern.Status returned yet.
NoStatus ==
  [CurrentTPS |-> 0, PoissonSpiking |-> FALSE, PoissonMultiplier |-> 0,
   NoiseMultiplier |-> 0]

\* No GetStatus call made.
InitStatus ==
  /\ statusPc = 0
  /\ statusUsed = <<0, 0>>
  /\ status = NoStatus

\* The components beside the daemon at their construction.
InitExtra ==
  /\ InitProtocol
  /\ InitScheduler
  /\ InitNoise
  /\ InitSelect
  /\ InitFields(maxSamples)
  /\ InitSnapshot
  /\ InitPercentile
  /\ InitConn
  /\ InitStatus

Init ==
  /\ InitRun
  /\ InitPoisson(PoissonOff)
  /\ InitAnalyzer
  /\ InitDiscovery(DefaultDiscovery)
  /\ InitExtra

Alive == fatal = "none"

\* ------------------------------------------------------- Pool.SetRate

\* Pool.SetRate up to and including limiter.SetLimit: the caller takes p.mu
\* (free only when no SetRate is in progress) and installs the new limit.
\* The limiter's waiters do not take p.mu: they see every state in between.
SetRateLimit(by, tps) ==
  /\ srPc = "idle"
  /\ limit' = tps
  /\ srPc' = "limit"
  /\ srTps' = tps
  /\ srBy' = by
  /\ UNCHANGED burst

\* limiter.SetBurst(int(tps / 10)).
SetRateBurst ==
  /\ Alive
  /\ srPc = "limit"
  /\ burst' = BurstOf(srTps)
  /\ srPc' = "burst"
  /\ UNCHANGED <<limit, srTps, srBy>>
  /\ UNCHANGED <<restVars, engineVars, daemonVars, taskVars, poolVars, healthVars,
                 historyVars, fatal>>

\* if limiter.Burst() < 1 { limiter.SetBurst(1) }, the unlock, and the
\* caller's return: a ramp-up task whose duration has elapsed ends here.
SetRateFloor ==
  /\ Alive
  /\ srPc = "burst"
  /\ burst' = IF burst < 1 THEN 1 ELSE burst
  /\ srPc' = "idle"
  /\ srBy' = <<"none", 0>>
  /\ rampLeft' = IF srBy[1] = "ramp" /\ rampLeft[srBy[2]] = 0
                 THEN [rampLeft EXCEPT ![srBy[2]] = -1]
                 ELSE rampLeft
  /\ UNCHANGED <<limit, srTps, nControl, genPc, genTarget>>
  /\ UNCHANGED <<restVars, engineVars, daemonVars, poolVars, healthVars,
                 historyVars, fatal>>

\* ------------------------------------------------- Controller.rampUp

\* currentTPS := startTPS + (targetTPS - startTPS) * progress, with
\* startTPS = 1.0 and progress = elapsed / RampUpDuration.
RampValue(target, elapsed) ==
  TPS(1) + ((target - TPS(1)) * elapsed) \div RampTicks

\* One firing of rampUp's ticker.  At least one period went by since the
\* last; once RampUpDuration has elapsed the task sets the target rate and
\* returns.  select takes a ready ticker case even when ctx is done too.
RampTick(g) ==
  /\ Alive
  /\ rampLeft[g] > 0
  /\ srBy # <<"ramp", g>>
  /\ \E left \in 0..(rampLeft[g] - 1) :
       /\ rampLeft' = [rampLeft EXCEPT ![g] = left]
       /\ SetRateLimit(<<"ramp", g>>,
                       IF left = 0 THEN cfg.base
                       ELSE RampValue(cfg.base, RampTicks - left))
  /\ UNCHANGED <<nControl, genPc, genTarget>>
  /\ UNCHANGED <<restVars, engineVars, daemonVars, poolVars, healthVars,
                 historyVars, fatal>>

\* case <-ctx.Done(): return.
RampExit(g) ==
  /\ Alive
  /\ ctxDone
  /\ rampLeft[g] > 0
  /\ srBy # <<"ramp", g>>
  /\ rampLeft' = [rampLeft EXCEPT ![g] = -1]
  /\ UNCHANGED <<nControl, genPc, genTarget>>
  /\ UNCHANGED <<restVars, engineVars, limiterVars, daemonVars, poolVars,
                 healthVars, historyVars, fatal>>

\* ---------------------------------------------- Controller.controlLoop

ControlInSetRate == IF srBy[1] = "control" THEN 1 ELSE 0

\* One firing of controlLoop's ticker: updateTPS computes the engine's TPS
\* and hands it to Pool.SetRate.
ControlTick ==
  /\ Alive
  /\ nControl > ControlInSetRate
  /\ \E s \in cfg.sched, p \in cfg.poisson, n \in cfg.noise :
       LET tps == CalculateTPS(baseTPS, maxTPS, s, p, n) IN
       /\ lastTPS' = tps
       /\ lastMax' = maxTPS
       /\ SetRateLimit(<<"control", 0>>, tps)
  /\ UNCHANGED <<baseTPS, maxTPS>>
  /\ UNCHANGED <<restVars, daemonVars, taskVars, poolVars, healthVars,
                 historyVars, fatal>>

\* case <-ctx.Done(): return.
ControlExit ==
  /\ Alive
  /\ ctxDone
  /\ nControl > ControlInSetRate
  /\ nControl' = nControl - 1
  /\ UNCHANGED <<rampLeft, genPc, genTarget>>
  /\ UNCHANGED <<restVars, engineVars, limiterVars, daemonVars, poolVars,
                 healthVars, historyVars, fatal>>

\* ---------------------------------------------------------- Pool.Submit

\* Submit with the send case taken on a full buffer too.
SubmitOutcomeOverfull(q, closed) ==
  IF closed THEN "panic"
  ELSE IF Len(q) <= QueueSize THEN "accepted"
  ELSE "rejected"

\* Pool.Submit's select on a channel holding q: the send case is ready when
\* the buffer has room; otherwise the default case runs.  A send on a closed
\* channel panics.
SubmitOutcome(q, closed) ==
  IF closed THEN "panic"
  ELSE IF Len(q) < QueueSize THEN "accepted"
  ELSE "rejected"

\* The channel after Submit(job) with that outcome.
SubmitQueue(q, job, outcome) ==
  IF outcome = "accepted" THEN Append(q, job) ELSE q

\* --------------------------------------------- Controller.generateLoop

\* c.checker.IsHealthy(name): the map read, false for a missing key.
IsHealthy(t) == statuses[t]

\* generateLoop's select takes the ticker case and submitJobs' loop begins
\* an iteration, or the loop goes on to its next iteration (i < 10): either
\* way ctx is found not done and selectTarget picks a target (any configured
\* target: every weight is positive).  The loop index is not kept: after an
\* iteration the task is back at "tick", where another iteration and the
\* next tick do the same.  With ctx done the iteration returns instead, and
\* the task is still at "tick".
GenSelect(g) ==
  /\ Alive
  /\ genPc[g] = "tick"
  /\ ~ctxDone
  /\ \E t \in Targets :
       /\ genPc' = [genPc EXCEPT ![g] = "check"]
       /\ genTarget' = [genTarget EXCEPT ![g] = t]
  /\ UNCHANGED <<rampLeft, nControl>>
  /\ UNCHANGED <<restVars, engineVars, limiterVars, daemonVars, poolVars,
                 healthVars, historyVars, fatal>>

\* generateLoop with a select that looks at ctx.Done() on a paused daemon
\* only.
GenExitWhenPaused(g) ==
  /\ Alive
  /\ ctxDone
  /\ ~triggered
  /\ genPc[g] = "tick"
  /\ genPc' = [genPc EXCEPT ![g] = "none"]
  /\ UNCHANGED <<rampLeft, nControl, genTarget>>
  /\ UNCHANGED <<restVars, engineVars, limiterVars, daemonVars, poolVars,
                 healthVars, historyVars, fatal>>

\* generateLoop's select takes case <-ctx.Done(): return.
GenExit(g) ==
  /\ Alive
  /\ ctxDone
  /\ genPc[g] = "tick"
  /\ genPc' = [genPc EXCEPT ![g] = "none"]
  /\ UNCHANGED <<rampLeft, nControl, genTarget>>
  /\ UNCHANGED <<restVars, engineVars, limiterVars, daemonVars, poolVars,
                 healthVars, historyVars, fatal>>

\* submitJobs without the health check.
PassesHealthGateAlways(t) == TRUE

\* Whether submitJobs goes on to Submit a job for target t.
\* if c.checker != nil && !c.checker.IsHealthy(target.Name) { continue }
PassesHealthGate(t) == IsHealthy(t)

GenHealthy(g) ==
  /\ Alive
  /\ genPc[g] = "check"
  /\ IF PassesHealthGate(genTarget[g])
     THEN /\ genPc' = [genPc EXCEPT ![g] = "submit"]
          /\ UNCHANGED genTarget
     ELSE /\ genPc' = [genPc EXCEPT ![g] = "tick"]
          /\ genTarget' = [genTarget EXCEPT ![g] = NoTarget]
  /\ UNCHANGED <<rampLeft, nControl>>
  /\ UNCHANGED <<restVars, engineVars, limiterVars, daemonVars, poolVars,
                 healthVars, historyVars, fatal>>

\* if !c.pool.Submit(job) { return }
GenSubmit(g) ==
  /\ Alive
  /\ genPc[g] = "submit"
  /\ LET outcome == SubmitOutcome(jobs, jobsClosed)
     IN /\ jobs' = SubmitQueue(jobs, genTarget[g], outcome)
        /\ fatal' = IF outcome = "panic" THEN "send on closed channel" ELSE fatal
        /\ lastSubmit' = IF outcome = "panic" THEN lastSubmit ELSE outcome
  /\ genPc' = [genPc EXCEPT ![g] = "tick"]
  /\ genTarget' = [genTarget EXCEPT ![g] = NoTarget]
  /\ UNCHANGED <<rampLeft, nControl>>
  /\ UNCHANGED <<wIdle, wWait, wActive, jobsClosed>>
  /\ UNCHANGED <<restVars, engineVars, limiterVars, daemonVars, healthVars,
                 abandoned, drainExpired>>

\* ---------------------------------------------------------- Pool.worker

\* Pool.worker's select receives a job (a closed channel still delivers what
\* it buffers; a ready receive may be taken even when ctx is done), and
\* processJob calls limiter.Wait.
WorkerReceive ==
  /\ Alive
  /\ wIdle > 0
  /\ Len(jobs) > 0
  /\ jobs' = Tail(jobs)
  /\ wIdle' = wIdle - 1
  /\ wWait' = wWait + 1
  /\ UNCHANGED <<wActive, jobsClosed>>
  /\ UNCHANGED <<restVars, engineVars, limiterVars, daemonVars, taskVars,
                 healthVars, historyVars, fatal>>

\* limiter.Wait(ctx) returns nil: the worker executes the request.
WorkerToken ==
  /\ Alive
  /\ wWait > 0
  /\ ~ctxDone
  /\ wWait' = wWait - 1
  /\ wActive' = wActive + 1
  /\ UNCHANGED <<wIdle, jobs, jobsClosed>>
  /\ UNCHANGED <<restVars, engineVars, limiterVars, daemonVars, taskVars,
                 healthVars, historyVars, fatal>>

\* limiter.Wait(ctx) returns ctx's error: processJob returns, the job is not
\* executed.
WorkerWaitCancelled ==
  /\ Alive
  /\ wWait > 0
  /\ ctxDone
  /\ wWait' = wWait - 1
  /\ wIdle' = wIdle + 1
  /\ abandoned' = TRUE
  /\ UNCHANGED <<wActive, jobs, jobsClosed>>
  /\ UNCHANGED <<restVars, engineVars, limiterVars, daemonVars, taskVars,
                 healthVars, lastSubmit, drainExpired, fatal>>

\* limiter.Wait(ctx) finds n = 1 above the limiter's burst (rate.Limiter's
\* WaitN: "exceeds limiter's burst") and returns the error: processJob
\* returns, the job is not executed.  The burst is below 1 between SetRate's
\* SetBurst(int(tps / 10)), for tps < 10, and its SetBurst(1).
WorkerWaitBurst ==
  /\ Alive
  /\ wWait > 0
  /\ burst < 1
  /\ wWait' = wWait - 1
  /\ wIdle' = wIdle + 1
  /\ abandoned' = TRUE
  /\ UNCHANGED <<wActive, jobs, jobsClosed>>
  /\ UNCHANGED <<restVars, engineVars, limiterVars, daemonVars, taskVars,
                 healthVars, lastSubmit, drainExpired, fatal>>

\* client.Do returned; metrics recorded; active decremented.
WorkerFinish ==
  /\ Alive
  /\ wActive > 0
  /\ wActive' = wActive - 1
  /\ wIdle' = wIdle + 1
  /\ UNCHANGED <<wWait, jobs, jobsClosed>>
  /\ UNCHANGED <<restVars, engineVars, limiterVars, daemonVars, taskVars,
                 healthVars, historyVars, fatal>>

\* Pool.worker returns: case <-ctx.Done(), or the receive reports the
\* channel closed and empty.
WorkerExit ==
  /\ Alive
  /\ wIdle > 0
  /\ ctxDone \/ (jobsClosed /\ Len(jobs) = 0)
  /\ wIdle' = wIdle - 1
  /\ UNCHANGED <<wWait, wActive, jobs, jobsClosed>>
  /\ UNCHANGED <<restVars, engineVars, limiterVars, daemonVars, taskVars,
                 healthVars, historyVars, fatal>>

LiveWorkers == wIdle + wWait + wActive

\* ------------------------------------------------------------ Checker

\* Checker.checkTarget: the probe's verdict is stored under c.mu.  A probe
\* under a cancelled context fails.
CheckTarget(t) ==
  /\ Alive
  /\ nCheckers > 0
  /\ \E healthy \in (IF ctxDone THEN {FALSE} ELSE BOOLEAN) :
       statuses' = [statuses EXCEPT ![t] = healthy]
  /\ UNCHANGED nCheckers
  /\ UNCHANGED <<restVars, engineVars, limiterVars, daemonVars, taskVars,
                 poolVars, historyVars, fatal>>

\* Checker.run returns: case <-ctx.Done().
CheckerExit ==
  /\ Alive
  /\ ctxDone
  /\ nCheckers > 0
  /\ nCheckers' = nCheckers - 1
  /\ UNCHANGED statuses
  /\ UNCHANGED <<restVars, engineVars, limiterVars, daemonVars, taskVars,
                 poolVars, historyVars, fatal>>

\* ------------------------------------------------------------- Daemon

LiveRamps == {g \in Gens : rampLeft[g] >= 0}
LiveGenerators == {g \in Gens : genPc[g] # "none"}

\* Checker.Start writes c.statuses without c.mu.  When an earlier Start's
\* goroutines are alive (checkTarget writes the map, IsHealthy reads it) the
\* Go runtime may end the process on the concurrent map access.
StatusesShared == nCheckers > 0 \/ LiveGenerators # {}

\* Daemon.Trigger on a daemon that is not triggered: Pool.Start launches
\* PoolSize workers, Checker.Start (when enabled) marks every target healthy
\* and launches Checker.run, Controller.Start launches rampUp (when
\* RampUpDuration > 0), controlLoop and generateLoop.  A Trigger on a
\* triggered daemon returns at once.
Trigger ==
  /\ Alive
  /\ ~ctxDone
  /\ ~triggered
  /\ nStarts < MaxTriggers
  /\ triggered' = TRUE
  /\ nStarts' = nStarts + 1
  /\ wIdle' = wIdle + PoolSize
  /\ \/ /\ statuses' = IF cfg.health THEN [t \in Targets |-> TRUE] ELSE statuses
        /\ nCheckers' = IF cfg.health THEN nCheckers + 1 ELSE nCheckers
        /\ rampLeft' = IF cfg.rampUp
                       THEN [rampLeft EXCEPT ![nStarts + 1] = RampTicks]
                       ELSE rampLeft
        /\ nControl' = nControl + 1
        /\ genPc' = [genPc EXCEPT ![nStarts + 1] = "tick"]
        /\ UNCHANGED fatal
     \/ /\ cfg.health
        /\ StatusesShared
        /\ fatal' = "concurrent map writes"
        /\ UNCHANGED <<statuses, nCheckers, rampLeft, nControl, genPc>>
  /\ UNCHANGED <<ctxDone, stopPc, stopped, genTarget, wWait, wActive, jobs,
                 jobsClosed, lastSubmit, abandoned, drainExpired>>
  /\ UNCHANGED <<restVars, engineVars, limiterVars>>

\* Daemon.Pause: clears the flag.
Pause ==
  /\ Alive
  /\ ~ctxDone
  /\ triggered
  /\ triggered' = FALSE
  /\ UNCHANGED <<nStarts, ctxDone, stopPc, stopped>>
  /\ UNCHANGED <<restVars, engineVars, limiterVars, taskVars, poolVars,
                 healthVars, historyVars, fatal>>

\* Daemon.Stop, called on a running or on an already stopped daemon:
\* d.cancel().
StopCancel ==
  /\ Alive
  /\ stopPc = "none"
  /\ ctxDone' = TRUE
  /\ stopPc' = "ctrl"
  /\ UNCHANGED <<triggered, nStarts, stopped>>
  /\ UNCHANGED <<restVars, engineVars, limiterVars, taskVars, poolVars,
                 healthVars, historyVars, fatal>>

\* d.ctrl.Stop(): c.cancel(), then c.wg.Wait() until rampUp, controlLoop and
\* generateLoop have returned.
StopController ==
  /\ Alive
  /\ stopPc = "ctrl"
  /\ LiveRamps = {}
  /\ nControl = 0
  /\ LiveGenerators = {}
  /\ stopPc' = "checker"
  /\ UNCHANGED <<triggered, nStarts, ctxDone, stopped>>
  /\ UNCHANGED <<restVars, engineVars, limiterVars, taskVars, poolVars,
                 healthVars, historyVars, fatal>>

\* d.checker.Stop(): cancels the checker's context and closes its clients.
StopChecker ==
  /\ Alive
  /\ stopPc = "checker"
  /\ stopPc' = "drain"
  /\ UNCHANGED <<triggered, nStarts, ctxDone, stopped>>
  /\ UNCHANGED <<restVars, engineVars, limiterVars, taskVars, poolVars,
                 healthVars, historyVars, fatal>>

\* d.pool.Drain(ShutdownTimeout): returns once active is 0, or at the
\* deadline with requests still in flight.
Drain ==
  /\ Alive
  /\ stopPc = "drain"
  /\ stopPc' = "close"
  /\ drainExpired' = (drainExpired \/ wActive > 0)
  /\ UNCHANGED <<triggered, nStarts, ctxDone, stopped>>
  /\ UNCHANGED <<restVars, engineVars, limiterVars, taskVars, poolVars,
                 healthVars, lastSubmit, abandoned, fatal>>

\* d.pool.Stop() up to close(p.jobs): closing a closed channel panics.
PoolStopClose ==
  /\ Alive
  /\ stopPc = "close"
  /\ IF jobsClosed
     THEN /\ fatal' = "close of closed channel"
          /\ UNCHANGED <<jobsClosed, stopPc>>
     ELSE /\ jobsClosed' = TRUE
          /\ stopPc' = "wait"
          /\ UNCHANGED fatal
  /\ UNCHANGED <<triggered, nStarts, ctxDone, stopped>>
  /\ UNCHANGED <<wIdle, wWait, wActive, jobs>>
  /\ UNCHANGED <<restVars, engineVars, limiterVars, taskVars, healthVars, historyVars>>

\* d.pool.Stop() from p.wg.Wait() on, and the rest of Daemon.Stop.
PoolStopWait ==
  /\ Alive
  /\ stopPc = "wait"
  /\ LiveWorkers = 0
  /\ stopPc' = "none"
  /\ stopped' = TRUE
  /\ UNCHANGED <<triggered, nStarts, ctxDone>>
  /\ UNCHANGED <<restVars, engineVars, limiterVars, taskVars, poolVars,
                 healthVars, historyVars, fatal>>

\* ------------------------------------------------------------ Engine

\* Engine.SetBaseTPS(tps).
SetBaseTPS(tps) ==
  /\ baseTPS' = tps
  /\ UNCHANGED <<maxTPS, lastTPS, lastMax>>
  /\ UNCHANGED <<restVars, limiterVars, daemonVars, taskVars, poolVars,
                 healthVars, historyVars, fatal>>

\* Engine.SetMaxTPS(tps).
SetMaxTPS(tps) ==
  /\ maxTPS' = tps
  /\ UNCHANGED <<baseTPS, lastTPS, lastMax>>
  /\ UNCHANGED <<restVars, limiterVars, daemonVars, taskVars, poolVars,
                 healthVars, historyVars, fatal>>

\* A call of Engine.CalculateTPS(scheduleMultiplier) while the Poisson and
\* noise generators are at the given multipliers.
Calculate(schedMult, poissonMult, noiseMult) ==
  /\ lastTPS' = CalculateTPS(baseTPS, maxTPS, schedMult, poissonMult, noiseMult)
  /\ lastMax' = maxTPS
  /\ UNCHANGED <<baseTPS, maxTPS>>
  /\ UNCHANGED <<restVars, limiterVars, daemonVars, taskVars, poolVars,
                 healthVars, historyVars, fatal>>

\* ------------------------------------------------------ specifications

\* The limiter's rate and burst are written by SetRate alone and read by
\* the workers' limiter wait alone (WorkerWaitBurst), and SetRate's callers
\* read nothing of the pool, the queue or the health map.  Spec follows the
\* daemon, the tasks' starts and exits, the generate task, the workers, the
\* queue and the health checker with the rate left alone, and SpecRate
\* follows the rate through the ramp-up and control ticks of the same tasks.
\* SpecEngine drives the engine alone, SpecFeed the generate tasks, the
\* queue, the workers and the checker of a daemon that is not being stopped,
\* and SpecWait the workers of such a daemon together with the control
\* task's SetRate calls.

Next ==
  \/ Trigger
  \/ Pause
  \/ StopCancel
  \/ StopController
  \/ StopChecker
  \/ Drain
  \/ PoolStopClose
  \/ PoolStopWait
  \/ \E g \in Gens : RampExit(g)
  \/ ControlExit
  \/ \E g \in Gens : GenSelect(g)
  \/ \E g \in Gens : GenExit(g)
  \/ \E g \in Gens : GenHealthy(g)
  \/ \E g \in Gens : GenSubmit(g)
  \/ WorkerReceive
  \/ WorkerToken
  \/ WorkerWaitCancelled
  \/ WorkerFinish
  \/ WorkerExit
  \/ \E t \in Targets : CheckTarget(t)
  \/ CheckerExit

Spec == Init /\ [][Next]_vars

NextRate ==
  \/ Trigger
  \/ Pause
  \/ StopCancel
  \/ StopController
  \/ SetRateBurst
  \/ SetRateFloor
  \/ \E g \in Gens : RampTick(g)
  \/ \E g \in Gens : RampExit(g)
  \/ ControlTick
  \/ ControlExit
  \/ \E g \in Gens : GenExit(g)

SpecRate == Init /\ [][NextRate]_vars

\* The controller's three tasks and the daemon's cancellation on a daemon
\* that is triggered and not paused, with the workers left out: Submit never
\* blocks, so the tasks wait for no worker.
NextStop ==
  \/ Trigger
  \/ StopCancel
  \/ StopController
  \/ SetRateBurst
  \/ SetRateFloor
  \/ \E g \in Gens : RampTick(g)
  \/ \E g \in Gens : RampExit(g)
  \/ ControlTick
  \/ ControlExit
  \/ \E g \in Gens : GenSelect(g)
  \/ \E g \in Gens : GenExit(g)
  \/ \E g \in Gens : GenHealthy(g)
  \/ \E g \in Gens : GenSubmit(g)

\* Every goroutine that can take a step takes one in the end: a SetRate in
\* progress completes, a submit iteration goes on, a task whose select has
\* ctx.Done() ready returns, and Stop's wg.Wait returns once the counter is
\* zero.  The control task is inside SetRate after each tick, where its
\* select is not running: select chooses uniformly among its ready cases, so
\* a task that is back at the select over and over with ctx.Done() ready
\* takes that case in the end (strong fairness).
FairStop ==
  /\ WF_vars(StopController)
  /\ WF_vars(SetRateBurst)
  /\ WF_vars(SetRateFloor)
  /\ SF_vars(ControlExit)
  /\ \A g \in Gens :
       /\ WF_vars(RampExit(g))
       /\ WF_vars(GenExit(g))
       /\ WF_vars(GenHealthy(g))
       /\ WF_vars(GenSubmit(g))

SpecStop == Init /\ [][NextStop]_vars /\ FairStop

NextEngine ==
  \/ \E tps \in RuntimeTPS : SetBaseTPS(tps)
  \/ \E tps \in RuntimeTPS : SetMaxTPS(tps)
  \/ \E s \in SchedMults, p \in PoissonMults, n \in NoiseMults : Calculate(s, p, n)

SpecEngine == Init /\ [][NextEngine]_vars

NextFeed ==
  \/ Trigger
  \/ Pause
  \/ \E g \in Gens : GenSelect(g)
  \/ \E g \in Gens : GenHealthy(g)
  \/ \E g \in Gens : GenSubmit(g)
  \/ WorkerReceive
  \/ WorkerToken
  \/ WorkerFinish
  \/ \E t \in Targets : CheckTarget(t)

SpecFeed == Init /\ [][NextFeed]_vars

NextWait ==
  \/ Trigger
  \/ \E g \in Gens : GenSelect(g)
  \/ \E g \in Gens : GenHealthy(g)
  \/ \E g \in Gens : GenSubmit(g)
  \/ WorkerReceive
  \/ WorkerToken
  \/ WorkerWaitBurst
  \/ WorkerFinish
  \/ ControlTick
  \/ SetRateBurst
  \/ SetRateFloor

SpecWait == Init /\ [][NextWait]_vars

\* --------------------------------------------------------- PoissonSpike

\* The generator is driven on its own, by the clock, by Multiplier calls
\* (the control task's, through CalculateTPS) and by TriggerManualSpike
\* calls; every call holds p.mu from its first read of the spike state on.

\* Go's integer division, which truncates toward zero (time.Duration / 3).
GoDiv(a, b) == IF a >= 0 THEN a \div b ELSE 0 - ((0 - a) \div b)

\* math.Exp(-3 * progress) in thousandths, for progress in sixths.
ExpDecay == <<1000, 607, 368, 223, 135, 82, 50>>

\* math.Exp(-3 * elapsed / total), progress taken down to the sixth.
DecayOf(elapsed, total) ==
  LET k == (6 * elapsed) \div total
  IN ExpDecay[(IF k < 0 THEN 0 ELSE IF k > 6 THEN 6 ELSE k) + 1]

\* The envelope of a spike of the given factor at time t: linear up to the
\* peak, exponential decay after it (a zero-length phase counts as 1 s).
Envelope(spikeFactor, start, peak, end, t) ==
  IF t < peak
  THEN LET total == IF peak - start = 0 THEN 1 ELSE peak - start
       IN 1000 + ((spikeFactor - 1000) * (t - start)) \div total
  ELSE LET total == IF end - peak = 0 THEN 1 ELSE end - peak
       IN 1000 + ((spikeFactor - 1000) * DecayOf(t - peak, total)) \div 1000

\* calculateSpikeMultiplier with the configured factor for every spike.
calculateSpikeMultiplierConfigured(c, manual, mFactor, start, peak, end, t) ==
  Envelope(c.SpikeFactor, start, peak, end, t)

\* PoissonSpike.calculateSpikeMultiplier(t) on the given spike state.
calculateSpikeMultiplier(c, manual, mFactor, start, peak, end, t) ==
  LET spikeFactor == IF manual /\ mFactor > 0 THEN mFactor ELSE c.SpikeFactor
  IN Envelope(spikeFactor, start, peak, end, t)

\* Whether Multiplier finds the current spike over: now.After(p.spikeEnd).
SpikeEnded(t, end) == t > end

\* The body of PoissonSpike.Multiplier(), under p.mu.
MultiplierCall ==
  /\ multAt' = now
  /\ IF ~poissonCfg.Enabled /\ ~manualSpike
     THEN /\ lastMult' = 1000
          /\ UNCHANGED <<spiking, spikeStart, spikePeak, spikeEnd,
                         nextSpikeTime, scheduledAt, manualSpike>>
     ELSE LET ended == spiking /\ SpikeEnded(now, spikeEnd)
              spiking1 == IF ended THEN FALSE ELSE spiking
              manual1 == IF ended THEN FALSE ELSE manualSpike
          IN /\ manualSpike' = manual1
             /\ nextSpikeTime' \in
                  IF ended
                  THEN {now + i : i \in ScheduleIntervals(poissonCfg)}
                  ELSE {nextSpikeTime}
             /\ scheduledAt' = IF ended THEN now ELSE scheduledAt
             /\ IF poissonCfg.Enabled /\ ~spiking1 /\ ~manual1
                   /\ now > nextSpikeTime'
                THEN \* startSpike(now)
                     /\ spiking' = TRUE
                     /\ spikeStart' = now
                     /\ spikePeak' = now + poissonCfg.RampUp
                     /\ spikeEnd' = now + poissonCfg.RampUp + poissonCfg.RampDown
                ELSE /\ spiking' = spiking1
                     /\ UNCHANGED <<spikeStart, spikePeak, spikeEnd>>
             /\ lastMult' =
                  IF spiking'
                  THEN calculateSpikeMultiplier(poissonCfg, manual1,
                         manualSpikeFactor, spikeStart', spikePeak',
                         spikeEnd', now)
                  ELSE 1000
  /\ UNCHANGED <<now, poissonCfg, manualSpikeFactor, manualSpikeDuration>>

\* PoissonSpike.Multiplier(), called by the control task through
\* CalculateTPS.
Multiplier ==
  /\ MultiplierCall
  /\ UNCHANGED besideSpike

\* PoissonSpike.TriggerManualSpike(factor, duration).
TriggerManualSpike(factor, duration) ==
  LET f == IF factor = 0 THEN poissonCfg.SpikeFactor ELSE factor
      d == IF duration = 0
           THEN poissonCfg.RampUp + poissonCfg.RampDown
           ELSE duration
  IN /\ manualSpike' = TRUE
     /\ manualSpikeFactor' = f
     /\ manualSpikeDuration' = d
     /\ spiking' = TRUE
     /\ spikeStart' = now
     /\ spikePeak' = now + GoDiv(d, 3)
     /\ spikeEnd' = now + d
     /\ UNCHANGED <<now, poissonCfg, nextSpikeTime, scheduledAt, lastMult,
                    multAt>>
     /\ UNCHANGED besideSpike

\* A second of wall-clock time passes.
Tick ==
  /\ now < MaxTime
  /\ now' = now + 1
  /\ UNCHANGED <<runVars, spikeState, analyzerVars, discoveryVars, extraVars>>

InitSpike ==
  /\ InitRun
  /\ InitExtra
  /\ cfg.poisson = {10, 30}
  /\ \E c \in PoissonConfigs : InitPoisson(c)
  /\ InitAnalyzer
  /\ InitDiscovery(DefaultDiscovery)

NextSpike ==
  \/ Tick
  \/ Multiplier
  \/ \E f \in ManualFactors, d \in ManualDurations : TriggerManualSpike(f, d)

SpecSpike == InitSpike /\ [][NextSpike]_vars

\* ------------------------------------------------------------- Analyzer

\* Latencies recorded into the analyzer (ms).
Latencies == {10, 200}

\* The sample sequence of the percentile example (ms).
TenSamples == <<10, 20, 30, 40, 50, 60, 70, 80, 90, 100>>

\* The tail of a sequence from its n-th element on (0-based), s[n:].
SliceFrom(s, n) == SubSeq(s, n + 1, Len(s))

\* sort.Float64s, by insertion.
RECURSIVE InsertSorted(_, _)
InsertSorted(sorted, x) ==
  IF sorted = <<>> THEN <<x>>
  ELSE IF x <= Head(sorted) THEN <<x>> \o sorted
  ELSE <<Head(sorted)>> \o InsertSorted(Tail(sorted), x)

RECURSIVE SortFloat64s(_)
SortFloat64s(data) ==
  IF data = <<>> THEN <<>>
  ELSE InsertSorted(SortFloat64s(Tail(data)), Head(data))

\* percentile with the index rounded to the nearest instead of truncated.
percentileNearest(data, p) ==
  IF Len(data) = 0 THEN 0
  ELSE LET sorted == SortFloat64s(data)
           index == ((Len(sorted) - 1) * p + 50) \div 100
       IN sorted[index + 1]

\* percentile(data, p): index := int(float64(len(sorted)-1) * p / 100).
percentile(data, p) ==
  IF Len(data) = 0 THEN 0
  ELSE LET sorted == SortFloat64s(data)
           index == ((Len(sorted) - 1) * p) \div 100
           clamped == IF index < 0 THEN 0
                      ELSE IF index >= Len(sorted) THEN Len(sorted) - 1
                      ELSE index
       IN sorted[clamped + 1]

\* getWindowLatencies' startIdx (0-based) at time t: the first index whose
\* timestamp is after the cutoff, and 0 when the loop finds none.
WindowStart(ts, t) ==
  LET cutoff == t - aWindow
      inside == {i \in 1..Len(ts) : ts[i] > cutoff}
  IN IF inside = {} THEN 0
     ELSE (CHOOSE i \in inside : \A j \in inside : i <= j) - 1

\* Analyzer.getWindowLatencies at time t.
getWindowLatencies(lat, ts, t) ==
  IF Len(lat) = 0 THEN <<>>
  ELSE IF WindowStart(ts, t) >= Len(lat) THEN <<>>
  ELSE SliceFrom(lat, WindowStart(ts, t))

RECURSIVE SumOf(_)
SumOf(data) == IF data = <<>> THEN 0 ELSE Head(data) + SumOf(Tail(data))

\* Analyzer.GetP95Latency.
GetP95Latency == percentile(getWindowLatencies(latencies, timestamps, now), 95)

\* Analyzer.GetP99Latency.
GetP99Latency == percentile(getWindowLatencies(latencies, timestamps, now), 99)

\* Analyzer.GetAvgLatency, in thousandths of a millisecond.
GetAvgLatency ==
  LET w == getWindowLatencies(latencies, timestamps, now)
  IN IF Len(w) = 0 THEN 0 ELSE (SumOf(w) * 1000) \div Len(w)

\* Analyzer.GetErrorRate, in thousandths of a percent.
GetErrorRate ==
  IF totalRequests = 0 THEN 0
  ELSE (totalErrors * 100 * 1000) \div totalRequests

\* RecordLatency trimming nothing on overflow.
trimCountNone(n) == 0

\* trimCount := a.maxSamples / 10.
trimCount(n) == n \div 10

\* Analyzer.RecordLatency(latencyMs, isError).
RecordLatency(latencyMs, isError) ==
  LET lat == Append(latencies, latencyMs)
      ts == Append(timestamps, now)
      trim == Len(lat) > aCap
  IN /\ latencies' = IF trim THEN SliceFrom(lat, trimCount(aCap)) ELSE lat
     /\ timestamps' = IF trim THEN SliceFrom(ts, trimCount(aCap)) ELSE ts
     /\ totalRequests' = totalRequests + 1
     /\ totalErrors' = IF isError THEN totalErrors + 1 ELSE totalErrors
     /\ UNCHANGED snapshot

\* A request's latency is recorded.
RecordSample ==
  /\ totalRequests < MaxRecorded
  /\ \E l \in Latencies, e \in BOOLEAN : RecordLatency(l, e)
  /\ UNCHANGED besideAnalyzer

\* The next sample of the percentile example is recorded.
RecordTenSamples ==
  /\ Len(latencies) < Len(TenSamples)
  /\ latencies = SubSeq(TenSamples, 1, Len(latencies))
  /\ RecordLatency(TenSamples[Len(latencies) + 1], FALSE)
  /\ UNCHANGED besideAnalyzer

\* Analyzer.Reset.
Reset ==
  /\ latencies' = <<>>
  /\ timestamps' = <<>>
  /\ totalRequests' = 0
  /\ totalErrors' = 0
  /\ UNCHANGED snapshot

\* ResetWindow zeroing the totals too.
ResetWindowTotals ==
  /\ latencies' = <<>>
  /\ timestamps' = <<>>
  /\ totalRequests' = 0
  /\ totalErrors' = 0
  /\ UNCHANGED snapshot

\* Analyzer.ResetWindow.
ResetWindow ==
  /\ latencies' = <<>>
  /\ timestamps' = <<>>
  /\ UNCHANGED <<totalRequests, totalErrors, snapshot>>

\* The window is cleared from outside a discovery run.
ClearWindow ==
  /\ latencies # <<>>
  /\ ResetWindow
  /\ UNCHANGED besideAnalyzer

\* What Analyzer.TakeSnapshot returns now.
SnapshotNow ==
  [P95Latency |-> GetP95Latency,
   P99Latency |-> GetP99Latency,
   AvgLatency |-> GetAvgLatency,
   ErrorRate |-> GetErrorRate,
   TotalRequests |-> totalRequests,
   TotalErrors |-> totalErrors,
   SampleCount |-> Len(getWindowLatencies(latencies, timestamps, now)),
   Timestamp |-> now]

\* The fields of Snapshot in the order TakeSnapshot's literal evaluates
\* their getters.
SnapshotFields ==
  <<"P95Latency", "P99Latency", "AvgLatency", "ErrorRate", "TotalRequests",
    "TotalErrors", "SampleCount">>

\* Analyzer.TakeSnapshot: the next getter of the call runs, taking and
\* releasing a.mu on its own; other calls on the analyzer run between two
\* getters.  After GetSampleCount the timestamp is read and the Snapshot
\* returned.  One call is followed.
TakeSnapshot ==
  LET field == SnapshotFields[snapPc + 1]
      filled == [snapPartial EXCEPT ![field] = SnapshotNow[field]]
  IN /\ snapshot = NoSnapshot
     /\ snapPc < Len(SnapshotFields)
     /\ IF snapPc + 1 = Len(SnapshotFields)
        THEN /\ snapshot' = [filled EXCEPT !.Timestamp = now]
             /\ snapPartial' = EmptySnapshot
             /\ snapPc' = 0
        ELSE /\ snapPartial' = filled
             /\ snapPc' = snapPc + 1
             /\ UNCHANGED snapshot
     /\ UNCHANGED <<latencies, timestamps, totalRequests, totalErrors>>
     /\ UNCHANGED besideSnapshot

\* Analyzer.Reset is called.
ResetAll ==
  /\ totalRequests > 0
  /\ Reset
  /\ UNCHANGED besideAnalyzer

NextAnalyzer ==
  \/ Tick
  \/ RecordSample
  \/ ClearWindow

\* The analyzer on its own, beside a daemon that is not started.
InitAnalysis ==
  /\ Init
  /\ ~cfg.health

SpecAnalyzer == InitAnalysis /\ [][NextAnalyzer]_vars

\* The percentile example: the ten samples arrive in order as time passes.
NextPercentile ==
  \/ Tick
  \/ RecordTenSamples

SpecPercentile == InitAnalysis /\ [][NextPercentile]_vars

\* Samples held when percentile is called, and calls made.
MaxHeld == 4
MaxPercentileCalls == 2

\* Latencies of those samples (ms): fewer values than samples, so that some
\* are equal.
SampleLatencies == {10, 20, 30}

\* The p percentile is called with: whole percents of [0, 100], where
\* float64(len - 1) * p / 100 is exact to the unit.
Percents == {0, 1, 25, 50, 75, 95, 99, 100}

\* A request's latency is recorded, at the time the analyzer was built.
RecordForPercentile ==
  /\ Len(latencies) < MaxHeld
  /\ \E l \in SampleLatencies : RecordLatency(l, FALSE)
  /\ UNCHANGED besideAnalyzer

\* percentile(data, p) on the window's samples, under a.mu: data is the
\* slice a.latencies[startIdx:]; the call sorts a copy of it and leaves the
\* slice as it was.
CallPercentile(p) ==
  /\ latencies # <<>>
  /\ pctCalls < MaxPercentileCalls
  /\ pctData' = getWindowLatencies(latencies, timestamps, now)
  /\ pctP' = p
  /\ pctOut' = percentile(pctData', p)
  /\ pctCalls' = pctCalls + 1
  /\ UNCHANGED <<coreVars, protocolVars, schedulerVars, noiseVars, selectVars,
                 analyzerFields, snapVars, connVars, statusVars>>

NextPercentileCalls ==
  \/ RecordForPercentile
  \/ \E p \in Percents : CallPercentile(p)

SpecPercentileCalls == InitAnalysis /\ [][NextPercentileCalls]_vars

\* Snapshots taken while other callers record and reset.
NextSnapshot ==
  \/ RecordSample
  \/ ClearWindow
  \/ ResetAll
  \/ TakeSnapshot

SpecSnapshot == InitAnalysis /\ [][NextSnapshot]_vars

\* The sample cap the overflow runs are made with: NewAnalyzer's maxSamples
\* scaled down, still a multiple of ten.
SampleCap == 10

\* Records made in an overflow run.
MaxFill == 15

\* The next request of an overflow run is recorded; its latency is its
\* arrival number.
RecordNumbered ==
  /\ totalRequests < MaxFill
  /\ \E e \in BOOLEAN : RecordLatency(totalRequests + 1, e)
  /\ UNCHANGED besideAnalyzer

\* An analyzer holding at most SampleCap samples, beside a daemon that is
\* not started.
InitCapped ==
  /\ InitRun
  /\ ~cfg.health
  /\ InitPoisson(PoissonOff)
  /\ InitAnalyzer
  /\ InitDiscovery(DefaultDiscovery)
  /\ InitProtocol
  /\ InitScheduler
  /\ InitNoise
  /\ InitSelect
  /\ InitFields(SampleCap)
  /\ InitSnapshot
  /\ InitPercentile
  /\ InitConn
  /\ InitStatus

NextCap ==
  \/ RecordNumbered
  \/ ClearWindow
  \/ ResetAll

SpecCap == InitCapped /\ [][NextCap]_vars

\* ------------------------------------------------- discovery.Controller

\* What the discovery controller's steps leave alone, the analyzer apart.
besideDiscovery == <<runVars, spikeVars, extraVars>>

\* NewResult with the recommended max left at 0.9 * breaking.
NewResultUnraised(sustained, breaking, p95Latency, errorRate, duration, steps) ==
  [SustainedTPS |-> sustained,
   BreakingTPS |-> breaking,
   P95Latency |-> p95Latency,
   ErrorRate |-> errorRate,
   TestDuration |-> duration,
   StepsCompleted |-> steps,
   Recommendation |-> [BaseTPS |-> MulDiv(sustained, 4, 5),
                       MaxTPS |-> MulDiv(breaking, 9, 10)]]

\* discovery.NewResult: BaseTPS = sustained * 0.8, MaxTPS = breaking * 0.9
\* raised to BaseTPS * 2 (to the unit of a discovery rate).
NewResult(sustained, breaking, p95Latency, errorRate, duration, steps) ==
  LET base == MulDiv(sustained, 4, 5)
      max == MulDiv(breaking, 9, 10)
  IN [SustainedTPS |-> sustained,
      BreakingTPS |-> breaking,
      P95Latency |-> p95Latency,
      ErrorRate |-> errorRate,
      TestDuration |-> duration,
      StepsCompleted |-> steps,
      Recommendation |-> [BaseTPS |-> base,
                          MaxTPS |-> IF max < base * 2 THEN base * 2 ELSE max]]

\* Controller.hasConverged: (high - low) / low < convergence_rate.
hasConverged(low, high, convPct) ==
  /\ low # 0
  /\ high - low <= (low * convPct - 1) \div 100

\* Controller.isStable on a snapshot's P95 (ms) and error rate (thousandths
\* of a percent).
isStable(c, p95Latency, errorRate) ==
  /\ p95Latency <= c.LatencyLimitMs
  /\ errorRate <= c.ErrorRateLimit * 1000

\* run's sustainedTPS always taken from the configuration.
SustainedFromConfig(lastStable, minTPS) == minTPS

\* run's sustainedTPS: the last stable rate, min_tps when there is none.
SustainedOf(lastStable, minTPS) == IF lastStable = 0 THEN minTPS ELSE lastStable

\* run's breakingTPS: the breaking rate, 1.2 * sustained when there is none.
BreakingOf(breaking, sustained) ==
  IF breaking = 0 THEN MulDiv(sustained, 6, 5) ELSE breaking

\* The midpoint of the range run tries next reaching past its high end.
MidpointAbove(low, high) == high + (high - low) \div 2 + 1

\* c.currentTPS = (c.lowTPS + c.highTPS) / 2.
Midpoint(low, high) == (low + high) \div 2

\* <<q, r>> with x * n = q * d + r and 0 <= r < d, for 0 <= x <= d: the
\* quotient floor(x * n / d) by doubling, without the large product.
RECURSIVE ScaleBy(_, _, _)
ScaleBy(x, n, d) ==
  IF n = 0 THEN <<0, 0>>
  ELSE LET even == n % 2 = 0
           h == ScaleBy(x, IF even THEN n \div 2 ELSE n - 1, d)
           q == IF even THEN 2 * h[1] ELSE h[1]
           r == IF even THEN 2 * h[2] ELSE h[2] + x
       IN IF r >= d THEN <<q + 1, r - d>> ELSE <<q, r>>

\* The progress at which updateProgress caps: 99, in tenths of a percent.
ProgressCap == 990

\* c.progress = 100 at completion, in tenths of a percent.
ProgressDone == 1000

\* Controller.updateProgress on the range [low, high]: the new progress,
\* to the tenth of a percent; old when the configured range is empty.
updateProgress(c, low, high, old) ==
  LET initialRange == c.MaxTPS - c.MinTPS
      currentRange == high - low
  IN IF initialRange > 0
     THEN IF currentRange < (initialRange + 99) \div 100
          THEN ProgressCap
          ELSE ScaleBy(initialRange - currentRange, 1000, initialRange)[1]
     ELSE old

\* time.Second / time.Duration(tps) divides by zero when tps truncates to 0.
TickerPanics(tps) == tps \div DScale = 0

\* Controller.Start: a run begins.
DiscoveryStart ==
  /\ dPc = "none"
  /\ state # "running"
  /\ state' = "running"
  /\ lowTPS' = dCfg.MinTPS
  /\ highTPS' = dCfg.MaxTPS
  /\ currentTPS' = dCfg.MinTPS
  /\ lastStableTPS' = 0
  /\ breakingTPS' = 0
  /\ stepsCompleted' = 0
  /\ Reset
  /\ dPc' = "loop"
  /\ UNCHANGED <<dCfg, result, dCtxDone, stepTPS, completeCalls, tested,
                 cancelledInStep, completedReqs, completedErrs, dFatal>>
  /\ UNCHANGED besideDiscovery
  /\ UNCHANGED laterVars

\* run at the top of its loop: cancelled, converged, or runStep begins
\* (window reset, rate set, submitter goroutine started).
RunLoop ==
  /\ dFatal = "none"
  /\ dPc = "loop"
  /\ IF dCtxDone
     THEN /\ state' = "failed"
          /\ dPc' = "deferred"
          /\ UNCHANGED <<stepTPS, dFatal, analyzerVars, startRequests,
                         startErrors>>
     ELSE IF hasConverged(lowTPS, highTPS, dCfg.ConvergencePct)
     THEN /\ dPc' = "final"
          /\ UNCHANGED <<state, stepTPS, dFatal, analyzerVars, startRequests,
                         startErrors>>
     ELSE /\ stepTPS' = currentTPS
          /\ ResetWindow
          /\ startRequests' = totalRequests
          /\ startErrors' = totalErrors
          /\ IF TickerPanics(currentTPS)
             THEN dFatal' = "integer divide by zero" /\ UNCHANGED dPc
             ELSE dPc' = "step" /\ UNCHANGED dFatal
          /\ UNCHANGED state
  /\ UNCHANGED <<progress, earlierPc, restarts>>
  /\ UNCHANGED <<dCfg, result, dCtxDone, currentTPS, lowTPS, highTPS,
                 lastStableTPS, breakingTPS, stepsCompleted, completeCalls,
                 tested, cancelledInStep, completedReqs, completedErrs>>
  /\ UNCHANGED besideDiscovery

\* runStep's select takes stepCtx.Done (the step's time is up, or the parent
\* context was cancelled): the snapshot is judged, and run moves the search.
StepDone ==
  /\ dFatal = "none"
  /\ dPc = "step"
  /\ snapshot' = SnapshotNow
  /\ UNCHANGED <<latencies, timestamps, totalRequests, totalErrors>>
  /\ LET stable == isStable(dCfg, snapshot'.P95Latency, snapshot'.ErrorRate)
     IN /\ tested' = tested \cup {<<stepTPS, stable>>}
        /\ stepsCompleted' = stepsCompleted + 1
        /\ IF stable
           THEN /\ lastStableTPS' = currentTPS
                /\ lowTPS' = currentTPS
                /\ UNCHANGED <<breakingTPS, highTPS>>
                /\ IF currentTPS >= highTPS
                   THEN dPc' = "final" /\ UNCHANGED <<currentTPS, progress>>
                   ELSE /\ dPc' = "loop"
                        /\ currentTPS' = Midpoint(lowTPS', highTPS)
                        /\ progress' = updateProgress(dCfg, lowTPS', highTPS,
                                                      progress)
           ELSE /\ breakingTPS' = currentTPS
                /\ highTPS' = currentTPS
                /\ currentTPS' = Midpoint(lowTPS, highTPS')
                /\ progress' = updateProgress(dCfg, lowTPS, highTPS', progress)
                /\ dPc' = "loop"
                /\ UNCHANGED <<lastStableTPS, lowTPS>>
  /\ UNCHANGED <<startRequests, startErrors, earlierPc, restarts>>
  /\ UNCHANGED <<dCfg, state, result, dCtxDone, stepTPS, completeCalls,
                 cancelledInStep, completedReqs, completedErrs, dFatal>>
  /\ UNCHANGED besideDiscovery

\* runStep's select takes ctx.Done: it returns nil and run returns.
StepCancelled ==
  /\ dFatal = "none"
  /\ dPc = "step"
  /\ dCtxDone
  /\ dPc' = "deferred"
  /\ UNCHANGED <<dCfg, state, result, dCtxDone, currentTPS, lowTPS, highTPS,
                 lastStableTPS, breakingTPS, stepsCompleted, stepTPS,
                 completeCalls, tested, cancelledInStep, completedReqs,
                 completedErrs, dFatal>>
  /\ UNCHANGED <<analyzerVars, besideDiscovery>>
  /\ UNCHANGED laterVars

\* run after its loop: the final result, and the completion callback.
Finish ==
  /\ dFatal = "none"
  /\ dPc = "final"
  /\ snapshot' = SnapshotNow
  /\ UNCHANGED <<latencies, timestamps, totalRequests, totalErrors>>
  /\ LET sustained == SustainedOf(lastStableTPS, dCfg.MinTPS)
     IN result' = NewResult(sustained, BreakingOf(breakingTPS, sustained),
                            snapshot'.P95Latency, snapshot'.ErrorRate, 0,
                            stepsCompleted)
  /\ state' = "completed"
  /\ progress' = ProgressDone
  /\ completeCalls' = completeCalls + 1
  /\ dPc' = "deferred"
  /\ UNCHANGED <<startRequests, startErrors, earlierPc, restarts>>
  /\ UNCHANGED <<dCfg, dCtxDone, currentTPS, lowTPS, highTPS, lastStableTPS,
                 breakingTPS, stepsCompleted, stepTPS, tested,
                 cancelledInStep, completedReqs, completedErrs, dFatal>>
  /\ UNCHANGED besideDiscovery

\* run's deferred function: a state still running becomes completed.
Deferred ==
  /\ dFatal = "none"
  /\ dPc = "deferred"
  /\ state' = IF state = "running" THEN "completed" ELSE state
  /\ dPc' = "done"
  /\ UNCHANGED <<dCfg, result, dCtxDone, currentTPS, lowTPS, highTPS,
                 lastStableTPS, breakingTPS, stepsCompleted, stepTPS,
                 completeCalls, tested, cancelledInStep, completedReqs,
                 completedErrs, dFatal>>
  /\ UNCHANGED <<analyzerVars, besideDiscovery>>
  /\ UNCHANGED laterVars

\* The context handed to Start is cancelled while the run is in progress.
DiscoveryCancel ==
  /\ dFatal = "none"
  /\ dPc \notin {"none", "done"}
  /\ ~dCtxDone
  /\ dCtxDone' = TRUE
  /\ cancelledInStep' = (cancelledInStep \/ dPc = "step")
  /\ UNCHANGED <<dCfg, state, result, dPc, currentTPS, lowTPS, highTPS,
                 lastStableTPS, breakingTPS, stepsCompleted, stepTPS,
                 completeCalls, tested, completedReqs, completedErrs, dFatal>>
  /\ UNCHANGED <<analyzerVars, besideDiscovery>>
  /\ UNCHANGED laterVars

\* Controller.Stop while the run is in progress: cancel, state = idle.
DiscoveryStop ==
  /\ dFatal = "none"
  /\ dPc \notin {"none", "done"}
  /\ dCtxDone' = TRUE
  /\ state' = "idle"
  /\ cancelledInStep' = (cancelledInStep \/ (dPc = "step" /\ ~dCtxDone))
  /\ UNCHANGED <<dCfg, result, dPc, currentTPS, lowTPS, highTPS,
                 lastStableTPS, breakingTPS, stepsCompleted, stepTPS,
                 completeCalls, tested, completedReqs, completedErrs, dFatal>>
  /\ UNCHANGED <<analyzerVars, besideDiscovery>>
  /\ UNCHANGED laterVars

\* Controller.RecordRequest(latencyMs, isError), called from outside the
\* pool: recorded when the state is running.
RecordRequest(latencyMs, isError) ==
  /\ dFatal = "none"
  /\ totalRequests < MaxRecorded
  /\ IF state = "running"
     THEN RecordLatency(latencyMs, isError)
     ELSE UNCHANGED analyzerVars
  /\ UNCHANGED <<discoveryVars, besideDiscovery>>

\* Pool.processJob completes a request of the step in progress: it records
\* into p.metrics (metrics.RecordRequest) and into nothing else.
RequestCompleted(isError) ==
  /\ dFatal = "none"
  /\ dPc = "step"
  /\ completedReqs < MaxRecorded
  /\ completedReqs' = completedReqs + 1
  /\ completedErrs' = IF isError THEN completedErrs + 1 ELSE completedErrs
  /\ UNCHANGED <<dCfg, state, result, dCtxDone, dPc, currentTPS, lowTPS,
                 highTPS, lastStableTPS, breakingTPS, stepsCompleted, stepTPS,
                 completeCalls, tested, cancelledInStep, dFatal>>
  /\ UNCHANGED <<analyzerVars, besideDiscovery>>
  /\ UNCHANGED laterVars

InitDiscover ==
  /\ InitRun
  /\ InitExtra
  /\ ~cfg.health
  /\ InitPoisson(PoissonOff)
  /\ InitAnalyzer
  /\ \E c \in DiscoveryConfigs : InitDiscovery(c)

NextDiscovery ==
  \/ DiscoveryStart
  \/ RunLoop
  \/ StepDone
  \/ StepCancelled
  \/ Finish
  \/ Deferred
  \/ DiscoveryCancel
  \/ DiscoveryStop
  \/ \E l \in Latencies, e \in BOOLEAN : RecordRequest(l, e)
  \/ \E e \in BOOLEAN : RequestCompleted(e)

SpecDiscovery == InitDiscover /\ [][NextDiscovery]_vars

\* Runs started after the first.
MaxRestarts == 1

\* Controller.Start once an earlier run was started and the state is not
\* running (the run was stopped, or it failed or completed): the same
\* assignments as in the first Start, a new context, a new goroutine.  The
\* goroutine of the earlier run is followed from where it is; one that is at
\* the loop, in a step or at the final result was stopped, and its context is
\* cancelled.  c.progress is not assigned.
Restart ==
  /\ dFatal = "none"
  /\ dPc # "none"
  /\ state # "running"
  /\ earlierPc \in {"none", "done"}
  /\ restarts < MaxRestarts
  /\ restarts' = restarts + 1
  /\ earlierPc' = dPc
  /\ dCtxDone' = FALSE
  /\ state' = "running"
  /\ lowTPS' = dCfg.MinTPS
  /\ highTPS' = dCfg.MaxTPS
  /\ currentTPS' = dCfg.MinTPS
  /\ lastStableTPS' = 0
  /\ breakingTPS' = 0
  /\ stepsCompleted' = 0
  /\ Reset
  /\ dPc' = "loop"
  /\ tested' = {}
  /\ cancelledInStep' = FALSE
  /\ UNCHANGED <<dCfg, result, stepTPS, completeCalls, completedReqs,
                 completedErrs, dFatal, progress, startRequests, startErrors>>
  /\ UNCHANGED besideDiscovery

\* The earlier run at the top of its loop: its context is done.
EarlierRunLoop ==
  /\ dFatal = "none"
  /\ earlierPc = "loop"
  /\ state' = "failed"
  /\ earlierPc' = "deferred"
  /\ UNCHANGED <<dCfg, result, dCtxDone, dPc, currentTPS, lowTPS, highTPS,
                 lastStableTPS, breakingTPS, stepsCompleted, stepTPS,
                 completeCalls, tested, cancelledInStep, completedReqs,
                 completedErrs, dFatal, progress, startRequests, startErrors,
                 restarts>>
  /\ UNCHANGED <<analyzerVars, besideDiscovery>>

\* The earlier run in runStep: its select finds stepCtx.Done and ctx.Done
\* both ready and takes stepCtx.Done; the snapshot is judged and run moves
\* the search on the controller's fields as they are now.
EarlierStepDone ==
  /\ dFatal = "none"
  /\ earlierPc = "step"
  /\ snapshot' = SnapshotNow
  /\ UNCHANGED <<latencies, timestamps, totalRequests, totalErrors>>
  /\ stepsCompleted' = stepsCompleted + 1
  /\ IF isStable(dCfg, snapshot'.P95Latency, snapshot'.ErrorRate)
     THEN /\ lastStableTPS' = currentTPS
          /\ lowTPS' = currentTPS
          /\ UNCHANGED <<breakingTPS, highTPS>>
          /\ IF currentTPS >= highTPS
             THEN earlierPc' = "final" /\ UNCHANGED <<currentTPS, progress>>
             ELSE /\ earlierPc' = "loop"
                  /\ currentTPS' = Midpoint(lowTPS', highTPS)
                  /\ progress' = updateProgress(dCfg, lowTPS', highTPS,
                                                progress)
     ELSE /\ breakingTPS' = currentTPS
          /\ highTPS' = currentTPS
          /\ currentTPS' = Midpoint(lowTPS, highTPS')
          /\ progress' = updateProgress(dCfg, lowTPS, highTPS', progress)
          /\ earlierPc' = "loop"
          /\ UNCHANGED <<lastStableTPS, lowTPS>>
  /\ UNCHANGED <<dCfg, state, result, dCtxDone, dPc, stepTPS, completeCalls,
                 tested, cancelledInStep, completedReqs, completedErrs, dFatal,
                 startRequests, startErrors, restarts>>
  /\ UNCHANGED besideDiscovery

\* The earlier run in runStep: its select takes ctx.Done, runStep returns
\* nil and run returns.
EarlierStepCancelled ==
  /\ dFatal = "none"
  /\ earlierPc = "step"
  /\ earlierPc' = "deferred"
  /\ UNCHANGED <<dCfg, state, result, dCtxDone, dPc, currentTPS, lowTPS,
                 highTPS, lastStableTPS, breakingTPS, stepsCompleted, stepTPS,
                 completeCalls, tested, cancelledInStep, completedReqs,
                 completedErrs, dFatal, progress, startRequests, startErrors,
                 restarts>>
  /\ UNCHANGED <<analyzerVars, besideDiscovery>>

\* The earlier run after its loop: the final result, from the controller's
\* fields as they are now.
EarlierFinish ==
  /\ dFatal = "none"
  /\ earlierPc = "final"
  /\ snapshot' = SnapshotNow
  /\ UNCHANGED <<latencies, timestamps, totalRequests, totalErrors>>
  /\ LET sustained == SustainedOf(lastStableTPS, dCfg.MinTPS)
     IN result' = NewResult(sustained, BreakingOf(breakingTPS, sustained),
                            snapshot'.P95Latency, snapshot'.ErrorRate, 0,
                            stepsCompleted)
  /\ state' = "completed"
  /\ progress' = ProgressDone
  /\ completeCalls' = completeCalls + 1
  /\ earlierPc' = "deferred"
  /\ UNCHANGED <<dCfg, dCtxDone, dPc, currentTPS, lowTPS, highTPS,
                 lastStableTPS, breakingTPS, stepsCompleted, stepTPS, tested,
                 cancelledInStep, completedReqs, completedErrs, dFatal,
                 startRequests, startErrors, restarts>>
  /\ UNCHANGED besideDiscovery

\* The earlier run's deferred function.
EarlierDeferred ==
  /\ dFatal = "none"
  /\ earlierPc = "deferred"
  /\ state' = IF state = "running" THEN "completed" ELSE state
  /\ earlierPc' = "done"
  /\ UNCHANGED <<dCfg, result, dCtxDone, dPc, currentTPS, lowTPS, highTPS,
                 lastStableTPS, breakingTPS, stepsCompleted, stepTPS,
                 completeCalls, tested, cancelledInStep, completedReqs,
                 completedErrs, dFatal, progress, startRequests, startErrors,
                 restarts>>
  /\ UNCHANGED <<analyzerVars, besideDiscovery>>

\* A controller searching [10, 40] TPS that is stopped and started again.
InitRestart ==
  /\ InitRun
  /\ InitExtra
  /\ ~cfg.health
  /\ InitPoisson(PoissonOff)
  /\ InitAnalyzer
  /\ InitDiscovery([MinTPS |-> Rate(10), MaxTPS |-> Rate(40),
                    ConvergencePct |-> 25, LatencyLimitMs |-> 100,
                    ErrorRateLimit |-> 5, T |-> Rate(20)])

NextRestart ==
  \/ DiscoveryStart
  \/ RunLoop
  \/ StepDone
  \/ StepCancelled
  \/ Finish
  \/ Deferred
  \/ DiscoveryStop
  \/ \E l \in Latencies, e \in BOOLEAN : RecordRequest(l, e)
  \/ Restart
  \/ EarlierRunLoop
  \/ EarlierStepDone
  \/ EarlierStepCancelled
  \/ EarlierFinish
  \/ EarlierDeferred

SpecRestart == InitRestart /\ [][NextRestart]_vars

\* Arguments NewResult is evaluated on: sustained and breaking rates > 0.
ResultRates ==
  { Rate(1) \div 2, Rate(1), Rate(1) + 1, Rate(8), Rate(10), Rate(12) + 3,
    Rate(100), Rate(475) + 7, Rate(500), Rate(1000), Rate(2000) }

\* NewResult(sustained, breaking, ...) is called.
MakeResult(sustained, breaking) ==
  /\ result' = NewResult(sustained, breaking, 0, 0, 0, 0)
  /\ UNCHANGED <<dCfg, state, dCtxDone, dPc, currentTPS, lowTPS, highTPS,
                 lastStableTPS, breakingTPS, stepsCompleted, stepTPS,
                 completeCalls, tested, cancelledInStep, completedReqs,
                 completedErrs, dFatal>>
  /\ UNCHANGED <<analyzerVars, besideDiscovery>>
  /\ UNCHANGED laterVars

NextResult == \E s \in ResultRates, b \in ResultRates : MakeResult(s, b)

SpecResult == InitAnalysis /\ [][NextResult]_vars

\* ------------------------------------------------- protocol.GRPCClient

\* gRPC calls explored per run.
MaxCalls == 3

\* codes.OK and codes.Unavailable.
CodeOK == 0
CodeUnavailable == 14

\* The gRPC status codes an error can carry: Canceled (1) .. Unauthenticated.
ErrorCodes == 1..16

\* grpc_health_v1.HealthCheckResponse_ServingStatus.
ServingStatuses == {"UNKNOWN", "SERVING", "NOT_SERVING", "SERVICE_UNKNOWN"}

\* What a health-check call can come to: the connection cannot be made, the
\* call fails with a gRPC status error, or the server answers a status.
Outcomes ==
  {[kind |-> "conn_error"]}
    \cup {[kind |-> "rpc_error", code |-> c] : c \in ErrorCodes}
    \cup {[kind |-> "answer", status |-> st] : st \in ServingStatuses}

\* The server answered SERVING.
Serving == [kind |-> "answer", status |-> "SERVING"]

\* GRPCClient.Do: the Response for each outcome of the health-check call.
GRPCClientDo(o) ==
  IF o.kind = "conn_error" THEN [StatusCode |-> 0, Error |-> TRUE]
  ELSE IF o.kind = "rpc_error" THEN [StatusCode |-> o.code, Error |-> TRUE]
  ELSE IF o.status = "SERVING" THEN [StatusCode |-> CodeOK, Error |-> FALSE]
  ELSE [StatusCode |-> CodeUnavailable, Error |-> FALSE]

\* Metrics.RecordRequest's status label for a status code.
StatusLabel(statusCode) ==
  IF statusCode >= 400 \/ statusCode = 0 THEN "error" ELSE "success"

\* Checker.checkTarget's verdict on a Response.
Healthy(resp) ==
  ~resp.Error /\ resp.StatusCode >= 200 /\ resp.StatusCode < 400

\* Pool.processJob on a gRPC target: job.Client.Do, then
\* metrics.RecordRequest with the Response's status code.
GRPCRequest(o) ==
  /\ requestsTotal["success"] + requestsTotal["error"] < MaxCalls
  /\ grpcVia' = "pool"
  /\ grpcOutcome' = o
  /\ grpcResp' = GRPCClientDo(o)
  /\ lastLabel' = StatusLabel(grpcResp'.StatusCode)
  /\ requestsTotal' = [requestsTotal EXCEPT ![lastLabel'] = @ + 1]
  /\ UNCHANGED targetHealthy
  /\ UNCHANGED besideProtocol

\* Checker.checkTarget on a gRPC target: client.Do, then the verdict is
\* stored in statuses.
GRPCHealthCheck(o) ==
  /\ grpcVia' = "health"
  /\ grpcOutcome' = o
  /\ grpcResp' = GRPCClientDo(o)
  /\ targetHealthy' = Healthy(grpcResp')
  /\ UNCHANGED <<requestsTotal, lastLabel>>
  /\ UNCHANGED besideProtocol

NextProtocol ==
  \/ \E o \in Outcomes : GRPCRequest(o)
  \/ \E o \in Outcomes : GRPCHealthCheck(o)

SpecProtocol == InitAnalysis /\ [][NextProtocol]_vars

\* GRPCClient has no mutex: getConn reads and writes c.conns, and Close
\* replaces it, from whichever goroutine calls.  A worker is "lookup" while
\* its read of the map is in progress and "store" while its write is.

\* Another goroutine's access to c.conns is in progress while w writes it, or
\* another's write while w reads it.
Overlaps(w, writing) ==
  \E v \in ConnWorkers \ {w} :
    \/ connPc[v] = "store"
    \/ writing /\ connPc[v] = "lookup"

\* What an unsynchronised access to the map comes to: it goes on, or the Go
\* runtime detects the concurrent access and ends the process.
RaceOutcomes(w, writing) ==
  IF Overlaps(w, writing)
  THEN {"none", IF writing THEN "concurrent map writes"
                ELSE "concurrent map read and map write"}
  ELSE {"none"}

\* Connections the model lets one authority have open at a time; the code
\* has no such limit.
MaxOpened == 3

\* Worker w calls Do for authority a: getConn begins the lookup
\* c.conns[target].
GetConnLookup(w, a) ==
  /\ connFatal = "none"
  /\ connPc[w] = "idle"
  /\ connPc' = [connPc EXCEPT ![w] = "lookup"]
  /\ connFor' = [connFor EXCEPT ![w] = a]
  /\ connFatal' \in RaceOutcomes(w, FALSE)
  /\ UNCHANGED <<conns, opened>>
  /\ UNCHANGED <<coreVars, protocolVars, schedulerVars, noiseVars, selectVars,
                 analyzerFields, snapVars, pctVars, statusVars>>

\* The lookup ends: a cached connection is returned, or getConn goes on to
\* create one.
GetConnFound(w) ==
  /\ connFatal = "none"
  /\ connPc[w] = "lookup"
  /\ connPc' = [connPc EXCEPT ![w] = IF conns[connFor[w]] # 0 THEN "idle"
                                      ELSE "dial"]
  /\ UNCHANGED <<conns, opened, connFor, connFatal>>
  /\ UNCHANGED <<coreVars, protocolVars, schedulerVars, noiseVars, selectVars,
                 analyzerFields, snapVars, pctVars, statusVars>>

\* grpc.NewClient(target, opts...): on an error getConn returns it;
\* otherwise the connection exists and the write c.conns[target] = conn
\* begins.
GetConnNewClient(w) ==
  /\ connFatal = "none"
  /\ connPc[w] = "dial"
  /\ \E ok \in {o \in BOOLEAN : o => opened[connFor[w]] < MaxOpened} :
       IF ok
       THEN /\ opened' = [opened EXCEPT ![connFor[w]] = @ + 1]
            /\ connPc' = [connPc EXCEPT ![w] = "store"]
            /\ connFatal' \in RaceOutcomes(w, TRUE)
       ELSE /\ connPc' = [connPc EXCEPT ![w] = "idle"]
            /\ UNCHANGED <<opened, connFatal>>
  /\ UNCHANGED <<conns, connFor>>
  /\ UNCHANGED <<coreVars, protocolVars, schedulerVars, noiseVars, selectVars,
                 analyzerFields, snapVars, pctVars, statusVars>>

\* The write ends: the map holds w's connection for the authority, and
\* getConn returns it.
GetConnStore(w) ==
  /\ connFatal = "none"
  /\ connPc[w] = "store"
  /\ conns' = [conns EXCEPT ![connFor[w]] = w]
  /\ connPc' = [connPc EXCEPT ![w] = "idle"]
  /\ UNCHANGED <<opened, connFor, connFatal>>
  /\ UNCHANGED <<coreVars, protocolVars, schedulerVars, noiseVars, selectVars,
                 analyzerFields, snapVars, pctVars, statusVars>>

\* GRPCClient.Close: every connection the map holds is closed, and the map
\* is replaced by an empty one.
GRPCClientClose ==
  /\ connFatal = "none"
  /\ \E a \in Authorities : conns[a] # 0
  /\ opened' = [a \in Authorities |->
                  IF conns[a] # 0 THEN opened[a] - 1 ELSE opened[a]]
  /\ conns' = [a \in Authorities |-> 0]
  /\ UNCHANGED <<connPc, connFor, connFatal>>
  /\ UNCHANGED <<coreVars, protocolVars, schedulerVars, noiseVars, selectVars,
                 analyzerFields, snapVars, pctVars, statusVars>>

NextConn ==
  \/ \E w \in ConnWorkers, a \in Authorities : GetConnLookup(w, a)
  \/ \E w \in ConnWorkers : GetConnFound(w)
  \/ \E w \in ConnWorkers : GetConnNewClient(w)
  \/ \E w \in ConnWorkers : GetConnStore(w)
  \/ GRPCClientClose

SpecConn == InitAnalysis /\ [][NextConn]_vars

\* ------------------------------------------------- controller.Scheduler

\* Entries per schedule explored.
MaxEntries == 2

\* Hour lists of schedule entries: overlapping ones, and one with values no
\* clock hour equals.
HourSets == {{0}, {9, 23}, {0, 9}, {24, 0 - 1}}

\* config.ScheduleEntry values (TPSMultiplier in thousandths).
ScheduleEntries ==
  [Hours : HourSets, TPSMultiplier : {500, 2000}]

\* The schedules explored.
Schedules ==
  UNION {[1..n -> ScheduleEntries] : n \in 0..MaxEntries}

\* The hours GetMultiplierForHour is called with.
HourArgs == {0 - 25, 0 - 24, 0 - 1, 0, 9, 23, 24, 33, 47, 48}

\* Go's a % n: the remainder has the sign of a.
GoRem(a, n) == IF a >= 0 THEN a % n ELSE 0 - ((0 - a) % n)

\* hour = ((hour % 24) + 24) % 24.
NormalizeHour(hour) == GoRem(GoRem(hour, 24) + 24, 24)

\* The loop of GetMultiplier from entry i down to the first: the first entry
\* met whose Hours hold the hour decides, 1.0 when none does.
RECURSIVE ScanDown(_, _, _)
ScanDown(sched, i, hour) ==
  IF i = 0 THEN 1000
  ELSE IF hour \in sched[i].Hours THEN sched[i].TPSMultiplier
  ELSE ScanDown(sched, i - 1, hour)

\* GetMultiplierForHour with the hour taken as given.
GetMultiplierForHourRaw(sched, hour) ==
  IF Len(sched) = 0 THEN 1000 ELSE ScanDown(sched, Len(sched), hour)

\* Scheduler.GetMultiplierForHour(hour).
GetMultiplierForHour(sched, hour) ==
  IF Len(sched) = 0 THEN 1000
  ELSE ScanDown(sched, Len(sched), NormalizeHour(hour))

\* NewScheduler(sched).
NewScheduler(sched) ==
  /\ schedVia = "none"
  /\ schedule = <<>>
  /\ sched # <<>>
  /\ schedule' = sched
  /\ UNCHANGED <<schedVia, hourArg, hourMult>>
  /\ UNCHANGED besideScheduler

\* Scheduler.GetMultiplier() when the clock's hour is currentHour.
GetMultiplier(currentHour) ==
  /\ schedVia' = "GetMultiplier"
  /\ hourArg' = currentHour
  /\ hourMult' = IF Len(schedule) = 0 THEN 1000
                 ELSE ScanDown(schedule, Len(schedule), currentHour)
  /\ UNCHANGED schedule
  /\ UNCHANGED besideScheduler

\* Scheduler.GetMultiplierForHour(hour) is called.
CallGetMultiplierForHour(hour) ==
  /\ schedVia' = "GetMultiplierForHour"
  /\ hourArg' = hour
  /\ hourMult' = GetMultiplierForHour(schedule, hour)
  /\ UNCHANGED schedule
  /\ UNCHANGED besideScheduler

NextScheduler ==
  \/ \E sched \in Schedules : NewScheduler(sched)
  \/ \E h \in 0..23 : GetMultiplier(h)
  \/ \E h \in HourArgs : CallGetMultiplierForHour(h)

SpecScheduler == InitAnalysis /\ [][NextScheduler]_vars

\* -------------------------------------------------------- pattern.Noise

\* Noise values are integers in hundredths: 1.0 is NoiseOne.
NoiseOne == 100

\* The amplitudes explored, all of [0, 1]: 0, 0.2 and 1.
Amplitudes == {0, 20, NoiseOne}

\* config.Noise values explored.
NoiseConfigs == [Enabled : BOOLEAN, Amplitude : Amplitudes]

\* (rng.Float64()*2 - 1) * Amplitude: the targets drawn, to the unit.
NoiseTargets(amplitude) ==
  {0 - amplitude, 0 - (amplitude \div 2), 0, amplitude \div 4, amplitude}

\* velocity*dampingConstant + springConstant*(target - current), with
\* dampingConstant = 0.3 and springConstant = 0.1, to the unit.
SpringVelocity(v, target, current) == GoDiv(3 * v + (target - current), 10)

\* return 1.0 + 2 * n.currentValue.
ReturnedDoubled(current) == NoiseOne + 2 * current

\* return 1.0 + n.currentValue.
Returned(current) == NoiseOne + current

\* NewNoise(c).
NewNoise(c) ==
  /\ noiseOut = 0 - 1
  /\ noiseCfg = NoiseOff
  /\ c # NoiseOff
  /\ noiseCfg' = c
  /\ currentValue' = 0
  /\ targetValue' = 0
  /\ velocity' = 0
  /\ UNCHANGED <<noiseOut, noiseClamped>>
  /\ UNCHANGED besideNoise

\* The body of Noise.Multiplier(), under n.mu; change says whether
\* rng.Float64() < 0.1, and target is the target drawn then.
NoiseMultiplierCall(change, target) ==
  /\ IF ~noiseCfg.Enabled
     THEN /\ noiseOut' = NoiseOne
          /\ noiseClamped' = FALSE
          /\ UNCHANGED <<currentValue, targetValue, velocity>>
     ELSE LET t == IF change THEN target ELSE targetValue
              v == SpringVelocity(velocity, t, currentValue)
              x == currentValue + v
              a == noiseCfg.Amplitude
              over == x > a
              x1 == IF over THEN a ELSE x
              under == x1 < 0 - a
              x2 == IF under THEN 0 - a ELSE x1
          IN /\ targetValue' = t
             /\ velocity' = IF over \/ under THEN 0 ELSE v
             /\ currentValue' = x2
             /\ noiseClamped' = (over \/ under)
             /\ noiseOut' = Returned(x2)
  /\ UNCHANGED noiseCfg

\* Noise.Multiplier(), called by the control task through CalculateTPS.
NoiseMultiplier(change, target) ==
  /\ NoiseMultiplierCall(change, target)
  /\ UNCHANGED besideNoise

NextNoise ==
  \/ \E c \in NoiseConfigs : NewNoise(c)
  \/ \E change \in BOOLEAN, target \in NoiseTargets(noiseCfg.Amplitude) :
       NoiseMultiplier(change, target)

SpecNoise == InitAnalysis /\ [][NextNoise]_vars

\* ----------------------------------------------------- Engine.GetStatus

\* Engine.GetStatus calls poisson.Multiplier and noise.Multiplier for the
\* current TPS, then IsSpiking, poisson.Multiplier and noise.Multiplier again
\* for the fields of the Status it returns.  Each call takes the generator's
\* own mutex, so the control task's calls come between them; statusPc counts
\* the calls GetStatus has made.

\* baseTPS * poissonMult * noiseMult (thousandths and hundredths), capped
\* at maxTPS.
StatusTPS(base, max, poissonMult, noiseMult) ==
  LET tps == MulDiv(MulDiv(base, poissonMult, 1000), noiseMult, NoiseOne)
  IN IF tps > max THEN max ELSE tps

\* What a step of GetStatus on the spike generator leaves alone.
besideStatusSpike == <<runVars, analyzerVars, discoveryVars, protocolVars,
                       schedulerVars, noiseVars, selectVars, analyzerFields,
                       snapVars, pctVars, connVars>>

\* What a step of GetStatus on the noise generator leaves alone.
besideStatusNoise == <<coreVars, protocolVars, schedulerVars, selectVars,
                       analyzerFields, snapVars, pctVars, connVars>>

\* currentTPS := e.baseTPS * e.poisson.Multiplier() ...
StatusPoissonForTPS ==
  /\ statusPc = 0
  /\ MultiplierCall
  /\ statusUsed' = <<lastMult', 0>>
  /\ statusPc' = 1
  /\ status' = NoStatus
  /\ UNCHANGED besideStatusSpike

\* ... * e.noise.Multiplier(), and the cap at e.maxTPS.
StatusNoiseForTPS(change, target) ==
  /\ statusPc = 1
  /\ NoiseMultiplierCall(change, target)
  /\ statusUsed' = <<statusUsed[1], noiseOut'>>
  /\ status' = [NoStatus EXCEPT
                  !.CurrentTPS = StatusTPS(baseTPS, maxTPS, statusUsed[1],
                                           noiseOut')]
  /\ statusPc' = 2
  /\ UNCHANGED besideStatusNoise

\* PoissonSpiking: e.poisson.IsSpiking().
StatusIsSpiking ==
  /\ statusPc = 2
  /\ status' = [status EXCEPT !.PoissonSpiking = spiking]
  /\ statusPc' = 3
  /\ UNCHANGED statusUsed
  /\ UNCHANGED <<spikeVars, besideStatusSpike>>

\* PoissonMultiplier: e.poisson.Multiplier().
StatusPoissonMultiplier ==
  /\ statusPc = 3
  /\ MultiplierCall
  /\ status' = [status EXCEPT !.PoissonMultiplier = lastMult']
  /\ statusPc' = 4
  /\ UNCHANGED statusUsed
  /\ UNCHANGED besideStatusSpike

\* NoiseMultiplier: e.noise.Multiplier(); GetStatus returns the Status.
StatusNoiseMultiplier(change, target) ==
  /\ statusPc = 4
  /\ NoiseMultiplierCall(change, target)
  /\ status' = [status EXCEPT !.NoiseMultiplier = noiseOut']
  /\ statusPc' = 0
  /\ UNCHANGED statusUsed
  /\ UNCHANGED besideStatusNoise

\* How many seconds the clock runs beside GetStatus.
MaxStatusTime == 3

\* A second passes beside GetStatus.
StatusTick ==
  /\ now < MaxStatusTime
  /\ Tick

\* The noise configuration GetStatus is run on: noise on, amplitude 0.1.
NoiseOn == [Enabled |-> TRUE, Amplitude |-> 10]

\* The engine of a triggered daemon with the spike generator and the noise
\* generator on.
InitEngineStatus ==
  /\ InitRun
  /\ cfg.poisson = {10, 30}
  /\ \E c \in PoissonConfigs : c.Enabled /\ InitPoisson(c)
  /\ InitAnalyzer
  /\ InitDiscovery(DefaultDiscovery)
  /\ InitProtocol
  /\ InitScheduler
  /\ noiseCfg = NoiseOn
  /\ currentValue = 0
  /\ targetValue = 0
  /\ velocity = 0
  /\ noiseOut = 0 - 1
  /\ noiseClamped = FALSE
  /\ InitSelect
  /\ InitFields(maxSamples)
  /\ InitSnapshot
  /\ InitPercentile
  /\ InitConn
  /\ InitStatus

NextStatus ==
  \/ StatusTick
  \/ Multiplier
  \/ \E change \in BOOLEAN, target \in NoiseTargets(noiseCfg.Amplitude) :
       NoiseMultiplier(change, target)
  \/ StatusPoissonForTPS
  \/ \E change \in BOOLEAN, target \in NoiseTargets(noiseCfg.Amplitude) :
       StatusNoiseForTPS(change, target)
  \/ StatusIsSpiking
  \/ StatusPoissonMultiplier
  \/ \E change \in BOOLEAN, target \in NoiseTargets(noiseCfg.Amplitude) :
       StatusNoiseMultiplier(change, target)

SpecStatus == InitEngineStatus /\ [][NextStatus]_vars

\* ------------------------------------------- Controller.selectTarget

\* Targets per list and the largest weight explored.
MaxTargets == 3
MaxWeight == 3

\* The target lists explored, each target given by its (positive) weight.
WeightLists == UNION {[1..n -> 1..MaxWeight] : n \in 1..MaxTargets}

\* The sum of the first i weights.
RECURSIVE Cumulative(_, _)
Cumulative(weights, i) ==
  IF i = 0 THEN 0 ELSE Cumulative(weights, i - 1) + weights[i]

\* The loop of selectTarget from target i on, with the cumulative weight of
\* the targets before it: the index returned, 1 (weightedTargets[0]) when
\* the loop runs out.
RECURSIVE SelectLoop(_, _, _, _, _)
SelectLoop(weights, i, cumulative, r, inclusive) ==
  IF i > Len(weights) THEN 1
  ELSE LET c == cumulative + weights[i]
       IN IF r < c \/ (inclusive /\ r = c) THEN i
          ELSE SelectLoop(weights, i + 1, c, r, inclusive)

\* selectTarget with the comparison r <= cumulative.
selectTargetInclusive(weights, r) ==
  IF Len(weights) = 0 THEN 0 ELSE SelectLoop(weights, 1, 0, r, TRUE)

\* Controller.selectTarget when rng.Intn(totalWeight) gives r: the index of
\* the target returned, 0 for config.Target{}.
selectTarget(weights, r) ==
  IF Len(weights) = 0 THEN 0 ELSE SelectLoop(weights, 1, 0, r, FALSE)

\* NewController: buildWeightedTargets on the configured targets.
buildWeightedTargets(weights) ==
  /\ weightedTargets = <<>>
  /\ weightedTargets' = weights
  /\ totalWeight' = Cumulative(weights, Len(weights))
  /\ UNCHANGED <<drawn, selected>>
  /\ UNCHANGED besideSelect

\* selectTarget is called and rng.Intn(totalWeight) gives r.
SelectTarget(r) ==
  /\ weightedTargets # <<>>
  /\ drawn' = r
  /\ selected' = selectTarget(weightedTargets, r)
  /\ UNCHANGED <<weightedTargets, totalWeight>>
  /\ UNCHANGED besideSelect

NextSelect ==
  \/ \E weights \in WeightLists : buildWeightedTargets(weights)
  \/ \E r \in 0..(totalWeight - 1) : SelectTarget(r)

SpecSelect == InitAnalysis /\ [][NextSelect]_vars

\* ------------------------------------------------------------- claims

\* The burst Pool.SetRate means to install for a rate: max(1, floor(rate/10)).
ExpectedBurst(rate) == IF BurstOf(rate) < 1 THEN 1 ELSE BurstOf(rate)

\* A step in which generate task g's call of Pool.Submit is made.
SubmitStep(g) == genPc[g] = "submit" /\ genPc'[g] # "submit"

\* C1: in every reachable state, from pool construction on and across the
\* ramp-up and control ticks, the rate installed in the pool's limiter lies
\* in [1, max_tps].
C1_RateWithinBounds == TPS(1) <= limit /\ limit <= cfg.max

\* C2: in every reachable state, the states inside a SetRate included, the
\* limiter's burst is max(1, floor(rate/10)) of the rate it holds.
C2_BurstMatchesRate == burst = ExpectedBurst(limit)

\* C3 as stated: every value v CalculateTPS returns satisfies
\* 1 <= v <= max_tps, whatever base_tps, max_tps and the multipliers are.
C3_AlwaysWithinOneAndMax ==
  lastTPS # 0 => (TPS(1) <= lastTPS /\ lastTPS <= lastMax)

\* C3 as amended: every value v CalculateTPS returns satisfies v >= 1; when
\* max_tps >= 1 also v <= max_tps, and when max_tps < 1 the value is 1.
C3_ClampedWhenMaxAtLeastOne ==
  lastTPS # 0 =>
    /\ TPS(1) <= lastTPS
    /\ lastMax >= TPS(1) => lastTPS <= lastMax
    /\ lastMax < TPS(1) => lastTPS = TPS(1)

\* C3's case: a call whose product exceeded max_tps returned max_tps.
C3_Witness == lastTPS = lastMax /\ lastMax >= TPS(20) /\ baseTPS > lastMax

\* C4: Submit never blocks; it returns true exactly when the job was
\* appended and false exactly when the queue held QueueSize jobs; so the
\* queue never holds more than QueueSize jobs.
C4_SubmitContract ==
  /\ [](Len(jobs) <= QueueSize)
  /\ [](\A g \in Gens : (Alive /\ genPc[g] = "submit") => ENABLED GenSubmit(g))
  /\ [][\A g \in Gens : SubmitStep(g) =>
          /\ lastSubmit' \in {"accepted", "rejected"}
          /\ lastSubmit' = "accepted" <=> jobs' = Append(jobs, genTarget[g])
          /\ lastSubmit' = "rejected" <=> (Len(jobs) = QueueSize /\ jobs' = jobs)]_vars

\* C4's case: a Submit was rejected on a full queue while a worker holds an
\* earlier, accepted job.
C4_Witness == lastSubmit = "rejected" /\ Len(jobs) = QueueSize /\ wWait > 0

\* C5: when the service is stopped, every job Submit accepted is executed by
\* a worker, as long as the drain deadline has not expired: once Stop has
\* returned without the deadline expiring, no accepted job is left in the
\* queue and none was dropped.
C5_AcceptedJobsExecuted ==
  (stopped /\ ~drainExpired) => (Len(jobs) = 0 /\ ~abandoned)

\* C6: after stop has been initiated, no further Submit call reaches the
\* pool.
C6_NoSubmitAfterStop ==
  [][ctxDone => \A g \in Gens : ~SubmitStep(g)]_vars

\* C7: a stop called on an already stopped component returns without panic.
C7_SecondStopSafe == stopped => fatal = "none"

\* C8: after pause and until the next trigger, the generate task submits no
\* job to the pool.
C8_PausedNoSubmit ==
  [][(nStarts > 0 /\ ~triggered) => \A g \in Gens : ~SubmitStep(g)]_vars

\* C9: for any sequence of trigger and pause commands, the live workers
\* never exceed the pool size, and at most one ramp-up, one control and one
\* generate task exist.
C9_TasksBounded ==
  /\ LiveWorkers <= PoolSize
  /\ Cardinality(LiveRamps) <= 1
  /\ nControl <= 1
  /\ Cardinality(LiveGenerators) <= 1

\* C10 as stated: once target X is recorded unhealthy, the generate task
\* makes no Submit for X until X is recorded healthy again.
C10_NoSubmitWhileUnhealthy ==
  [][\A g \in Gens : SubmitStep(g) => statuses[genTarget[g]]]_vars

\* C10 as amended: the generate task goes on to a Submit for X only in a
\* step that finds X recorded healthy, and makes that one Submit before it
\* checks again; so once X is recorded unhealthy each generate task makes at
\* most the one Submit for X whose check had already passed.
C10_SubmitOnlyAfterHealthyCheck ==
  [][\A g \in Gens :
       /\ (genPc[g] # "submit" /\ genPc'[g] = "submit") =>
            (genPc[g] = "check" /\ statuses[genTarget'[g]])
       /\ SubmitStep(g) => genPc'[g] = "tick"]_vars

\* C10's case: X is recorded unhealthy and a generate task is about to
\* Submit a job for another, healthy target.
C10_Witness ==
  \E g \in Gens, t \in Targets :
    /\ ~statuses[t]
    /\ genPc[g] = "submit"
    /\ genTarget[g] # t
    /\ statuses[genTarget[g]]

\* A manual spike is active: what IsManualSpike reports.
IsManualSpike == manualSpike /\ spiking

\* C11: in every reachable state of the spike generator, after any
\* Multiplier calls and manual spikes with any factor and duration, the one
\* spike that is active has start <= peak <= end.
C11_SpikeTimestampsOrdered ==
  spiking => (spikeStart <= spikePeak /\ spikePeak <= spikeEnd)

\* What C12 says of a Multiplier call made while a manual spike is active
\* and not over, with the given factor expected in the envelope: the spike
\* stays the manual one with its timestamps (no automatic spike starts), its
\* envelope is peak = start + duration/3 and end = start + duration, the
\* multiplier is the envelope's value, and the deadline is left alone.
ManualSpikeHonoured(factor) ==
  (IsManualSpike /\ ~SpikeEnded(now, spikeEnd) /\ Multiplier) =>
    /\ spiking' /\ manualSpike'
    /\ UNCHANGED <<spikeStart, spikePeak, spikeEnd, nextSpikeTime>>
    /\ spikePeak = spikeStart + GoDiv(manualSpikeDuration, 3)
    /\ spikeEnd = spikeStart + manualSpikeDuration
    /\ lastMult' = Envelope(factor, spikeStart, spikePeak, spikeEnd, now)

\* The next automatic spike is rescheduled during a manual spike only by the
\* step that finds the manual spike over.
RescheduledAfterManual ==
  (IsManualSpike /\ nextSpikeTime' # nextSpikeTime) =>
    (now > spikeEnd /\ ~spiking' /\ ~manualSpike')

\* C12 as stated: while a manual spike is active no automatic spike starts,
\* the multiplier is computed with the manual factor and the manual
\* envelope, and the next automatic spike is scheduled only after the
\* manual spike has completed.
C12_ManualFactorAlways ==
  [][ManualSpikeHonoured(manualSpikeFactor) /\ RescheduledAfterManual]_vars

\* C12 as amended: the same, with the multiplier computed with the manual
\* factor when that factor is positive and with the configured spike_factor
\* when it is not.
C12_ManualFactorWhenPositive ==
  [][/\ ManualSpikeHonoured(IF manualSpikeFactor > 0
                            THEN manualSpikeFactor
                            ELSE poissonCfg.SpikeFactor)
     /\ RescheduledAfterManual]_vars

\* C12's case: Multiplier was evaluated at the peak of a manual spike whose
\* factor differs from the configured one, with an automatic spike overdue,
\* and returned the manual factor.
C12_Witness ==
  /\ IsManualSpike
  /\ poissonCfg.Enabled
  /\ nextSpikeTime < now
  /\ multAt = now
  /\ now = spikePeak
  /\ spikeStart < spikePeak
  /\ manualSpikeFactor # poissonCfg.SpikeFactor
  /\ lastMult = manualSpikeFactor

\* C13: a Multiplier call made at a time now >= end of the active spike
\* (now = end included) returns 1.0, leaves the generator idle and has
\* scheduled a new next-spike deadline.
C13_EndsAtOrAfterEnd ==
  [][(spiking /\ now >= spikeEnd /\ Multiplier) =>
       /\ lastMult' = 1000
       /\ ~spiking'
       /\ nextSpikeTime' \in {now + i : i \in ScheduleIntervals(poissonCfg)}]_vars

\* Every stored sample is older than the window.
AllStale ==
  /\ latencies # <<>>
  /\ \A i \in 1..Len(timestamps) : now - timestamps[i] > windowDuration

\* C19: p95, p99 and avg are computed only over samples whose age is at most
\* the window W: no older sample is among those they are computed over, and
\* when every stored sample is older than W they return 0.
C19_OnlyWindowSamples ==
  /\ \A i \in (WindowStart(timestamps, now) + 1)..Len(latencies) :
       now - timestamps[i] <= windowDuration
  /\ AllStale => (GetP95Latency = 0 /\ GetP99Latency = 0 /\ GetAvgLatency = 0)

\* C20: for the ten samples 10, 20, ..., 100 ms, all inside the window, the
\* analyzer reports p95 = 100, p99 = 100, p50 = 50 and avg = 55.
C20_TenSamplePercentiles ==
  (/\ latencies = TenSamples
   /\ \A i \in 1..Len(timestamps) : now - timestamps[i] < windowDuration) =>
    /\ GetP95Latency = 100
    /\ GetP99Latency = 100
    /\ percentile(getWindowLatencies(latencies, timestamps, now), 50) = 50
    /\ GetAvgLatency = 55 * 1000

\* C14: if the cancellation fires, through the parent context or through
\* Stop, while a discovery step is in progress, the controller ends in state
\* failed with no Result: GetResult is nil and the completion callback is
\* not invoked.
C14_CancelledMidStepFails ==
  (cancelledInStep /\ dPc = "done") =>
    (state = "failed" /\ result = NoResult /\ completeCalls = 0)

\* Every step so far was judged stable exactly when its rate was <= T.
VerdictsFollowT ==
  \A t \in tested : t[2] <=> (t[1] <= dCfg.T)

\* C15: for a target judged stable exactly when the tested rate is <= T,
\* with 0 < min_tps <= T < max_tps, the discovery loop terminates (here: it
\* does not crash and, for the range [10, 10000] with convergence 0.05,
\* takes at most 14 steps) with sustained <= T < breaking and
\* (breaking - sustained) / sustained < convergence_rate.
C15_ConvergesAroundT ==
  /\ dFatal = "none"
  /\ (result # NoResult /\ ~dCtxDone /\ VerdictsFollowT) =>
       /\ result.SustainedTPS <= dCfg.T
       /\ dCfg.T < result.BreakingTPS
       /\ hasConverged(result.SustainedTPS, result.BreakingTPS,
                       dCfg.ConvergencePct)
       /\ dCfg = DefaultDiscovery => result.StepsCompleted <= 14

\* The rates at which a step was run and judged stable.
StableRates == {t[1] : t \in {u \in tested : u[2]}}

\* C16 as stated: the sustained TPS of every Result is a rate at which a
\* step was run and judged stable, the highest such rate of the run.
C16_SustainedWasStable ==
  result # NoResult =>
    /\ result.SustainedTPS \in StableRates
    /\ \A r \in StableRates : r <= result.SustainedTPS

\* C16 as amended: if some step of the run was judged stable, the sustained
\* TPS of the Result is the highest rate judged stable; if none was, it is
\* min_tps.
C16_SustainedStableOrMin ==
  result # NoResult =>
    IF StableRates # {}
    THEN /\ result.SustainedTPS \in StableRates
         /\ \A r \in StableRates : r <= result.SustainedTPS
    ELSE result.SustainedTPS = dCfg.MinTPS

\* C16's case: a Result of a run with steps judged stable and a step judged
\* unstable.
C16_Witness ==
  /\ result # NoResult
  /\ Cardinality(StableRates) >= 2
  /\ \E t \in tested : ~t[2]
  /\ result.SustainedTPS > dCfg.MinTPS

\* C17: for every sustained > 0 and breaking > 0, NewResult recommends
\* base_tps = 0.8 * sustained and max_tps = max(0.9 * breaking, 2 * base_tps)
\* (each to the unit of a rate), hence max_tps >= base_tps > 0.
C17_Recommendation ==
  result # NoResult =>
    LET base == result.Recommendation.BaseTPS
        max == result.Recommendation.MaxTPS
        s == result.SustainedTPS
        b == result.BreakingTPS
    IN /\ 5 * base <= 4 * s /\ 4 * s < 5 * base + 5
       /\ max >= 2 * base
       /\ 10 * max + 10 > 9 * b
       /\ max = 2 * base \/ 10 * max <= 9 * b
       /\ max >= base /\ base > 0

\* C17's case: a Result whose recommended max is 0.9 * breaking, above twice
\* the recommended base.
C17_Witness ==
  /\ result # NoResult
  /\ result.Recommendation.MaxTPS > 2 * result.Recommendation.BaseTPS
  /\ result.BreakingTPS > result.SustainedTPS

\* C18: while discovery is running, every request the worker pool completes
\* is recorded into the analyzer exactly once: the completion raises
\* total_requests by one, and the error total by one if the request failed.
C18_CompletionRecorded ==
  [][\A e \in BOOLEAN :
       (state = "running" /\ RequestCompleted(e)) =>
         /\ totalRequests' = totalRequests + 1
         /\ totalErrors' = totalErrors + (IF e THEN 1 ELSE 0)]_vars

\* C21: a gRPC health check answered SERVING is treated as a success
\* (status label success in the metrics sink, healthy for the health
\* checker), and every other gRPC outcome as a failure.
C21_ServingIsSuccess ==
  /\ grpcVia = "pool" => (lastLabel = "success" <=> grpcOutcome = Serving)
  /\ grpcVia = "health" => (targetHealthy <=> grpcOutcome = Serving)

\* The entries of the schedule whose hour set contains h.
Matching(h) == {i \in 1..Len(schedule) : h \in schedule[i].Hours}

\* The multiplier of the last entry, in list order, whose hour set contains
\* h; 1.0 when no entry contains h.
LastMatching(h) ==
  IF Matching(h) = {} THEN 1000
  ELSE schedule[CHOOSE i \in Matching(h) : \A j \in Matching(h) : j <= i].TPSMultiplier

\* C22: the scheduler's multiplier for the hour h in 0..23 is the multiplier
\* of the last schedule entry whose hour set contains h, 1.0 if none does;
\* GetMultiplierForHour gives the same for any integer hour taken modulo 24.
C22_LastMatchingEntry ==
  /\ schedVia = "GetMultiplier" => hourMult = LastMatching(hourArg)
  /\ schedVia = "GetMultiplierForHour" => hourMult = LastMatching(hourArg % 24)

\* C22's case: a call with an hour outside 0..23 that two entries of the
\* schedule contain, with different multipliers.
C22_Witness ==
  /\ schedVia = "GetMultiplierForHour"
  /\ hourArg < 0
  /\ Cardinality(Matching(hourArg % 24)) = 2
  /\ schedule[1].TPSMultiplier # schedule[2].TPSMultiplier

WeightUpTo(i) == Cumulative(weightedTargets, i)

\* C24: for a non-empty target list with positive weights and a draw r in
\* [0, total_weight), selectTarget returns the first target in insertion
\* order whose cumulative weight exceeds r, so exactly weight_i of the
\* total_weight possible draws select target i.
C24_FirstCumulativeAbove ==
  /\ drawn # 0 - 1 =>
       /\ selected \in 1..Len(weightedTargets)
       /\ WeightUpTo(selected) > drawn
       /\ WeightUpTo(selected - 1) <= drawn
  /\ \A i \in 1..Len(weightedTargets) :
       Cardinality({r \in 0..(totalWeight - 1) :
                      selectTarget(weightedTargets, r) = i})
         = weightedTargets[i]

\* C24's case: of three targets with different weights, the last is
\* selected by a draw that is not the largest.
C24_Witness ==
  /\ Len(weightedTargets) = 3
  /\ weightedTargets[1] # weightedTargets[2]
  /\ selected = 3
  /\ drawn < totalWeight - 1

\* C25: from the controller's start until ramp_up_duration has elapsed,
\* every rate installed in the limiter is at most the linear ramp value
\* 1 + (base_tps - 1) * t / ramp_up_duration for the elapsed time t, and it
\* is installed by the ramp-up task: the control task does not write the
\* limiter rate while the ramp-up task is running.
C25_RampBoundsRate ==
  [][\A g \in Gens :
       (rampLeft[g] > 0 /\ rampLeft'[g] > 0 /\ limit' # limit) =>
         /\ srBy'[1] = "ramp"
         /\ limit' <= RampValue(cfg.base, RampTicks - rampLeft'[g])]_vars

\* C26: a job that a worker has dequeued is abandoned without being
\* executed only if the pool's cancellation signal has fired; a set_rate
\* call running beside the worker's limiter wait never makes the worker
\* drop the job.
C26_DroppedOnlyOnCancel ==
  [][(wWait' < wWait /\ wActive' = wActive) => ctxDone]_vars

\* An automatic spike starts in this step.
AutomaticStart == ~spiking /\ spiking' /\ ~manualSpike'

\* C27: every next-spike deadline scheduled at time t satisfies
\* t + min_interval <= next_spike_at <= t + max_interval (for min_interval
\* <= max_interval), so an automatic spike never starts earlier than
\* min_interval after the moment the previous spike's end was processed.
C27_DeadlineWithinIntervals ==
  [][/\ poissonCfg'.MinInterval <= poissonCfg'.MaxInterval =>
          /\ scheduledAt' + poissonCfg'.MinInterval <= nextSpikeTime'
          /\ nextSpikeTime' <= scheduledAt' + poissonCfg'.MaxInterval
     /\ AutomaticStart =>
          /\ now > nextSpikeTime
          /\ now >= scheduledAt + poissonCfg.MinInterval]_vars

\* C27's case: an automatic spike has started after a deadline that was
\* scheduled when an earlier spike's end was processed.
C27_Witness ==
  /\ spiking /\ ~manualSpike
  /\ scheduledAt > 0
  /\ spikeStart > nextSpikeTime
  /\ nextSpikeTime > scheduledAt

\* C28: a snapshot is an atomic capture: under any interleaving with record,
\* reset and reset_window calls, the fields of one snapshot describe one
\* and the same analyzer state; its error rate is 100 * its total_errors /
\* its total_requests, and its errors and samples do not exceed its requests.
C28_SnapshotOfOneState ==
  snapshot # NoSnapshot =>
    /\ snapshot.ErrorRate =
         IF snapshot.TotalRequests = 0 THEN 0
         ELSE (snapshot.TotalErrors * 100 * 1000) \div snapshot.TotalRequests
    /\ snapshot.TotalErrors <= snapshot.TotalRequests
    /\ snapshot.SampleCount <= snapshot.TotalRequests

\* The stored samples are in arrival order: each latency is the arrival
\* number after the one before it, and no timestamp precedes the one before.
ArrivalOrder(lat, ts) ==
  \A i \in 1..(Len(lat) - 1) :
    lat[i + 1] = lat[i] + 1 /\ ts[i] <= ts[i + 1]

\* C29: after every record call the stored sample count is at most N, the
\* latency and timestamp sequences have equal length and stay in arrival
\* order, and each overflow removes exactly the oldest floor(N/10) samples
\* while total_requests and total_errors are not reduced.
C29_OverflowTrimsOldest ==
  [][RecordNumbered =>
       /\ Len(latencies') <= aCap
       /\ Len(latencies') = Len(timestamps')
       /\ ArrivalOrder(latencies', timestamps')
       /\ latencies'[Len(latencies')] = totalRequests + 1
       /\ totalRequests' = totalRequests + 1
       /\ totalErrors' >= totalErrors
       /\ IF Len(latencies) = aCap
          THEN /\ Len(latencies') = aCap + 1 - (aCap \div 10)
               /\ latencies'[1] = latencies[1 + (aCap \div 10)]
          ELSE /\ Len(latencies') = Len(latencies) + 1
               /\ Len(latencies) > 0 => latencies'[1] = latencies[1]]_vars

\* C29's case: the store is full again after an overflow removed the oldest
\* samples, with an error counted.
C29_Witness ==
  /\ Len(latencies) = aCap
  /\ latencies[1] > 1
  /\ totalRequests > aCap
  /\ totalErrors > 0

\* C30: reset_window() empties the stored samples and leaves total_requests
\* and total_errors unchanged, reset() empties the samples and sets both
\* totals to zero; neither changes the window duration or the sample cap.
C30_ResetFrames ==
  [][/\ ClearWindow =>
          /\ latencies' = <<>> /\ timestamps' = <<>>
          /\ totalRequests' = totalRequests /\ totalErrors' = totalErrors
          /\ aWindow' = aWindow /\ aCap' = aCap
     /\ ResetAll =>
          /\ latencies' = <<>> /\ timestamps' = <<>>
          /\ totalRequests' = 0 /\ totalErrors' = 0
          /\ aWindow' = aWindow /\ aCap' = aCap]_vars

\* C30's case: the window was emptied with requests and errors counted.
C30_Witness ==
  /\ latencies = <<>>
  /\ totalRequests > 0
  /\ totalErrors > 0

\* The element at index i (0-based) of data sorted ascending: the value
\* with at most i elements below it and more than i elements not above it.
OrderStatistic(data, i) ==
  CHOOSE v \in {data[j] : j \in DOMAIN data} :
    /\ Cardinality({j \in DOMAIN data : data[j] < v}) <= i
    /\ i < Cardinality({j \in DOMAIN data : data[j] <= v})

\* C31: every percentile call on a non-empty sample set of size n with p in
\* [0, 100] returns the element at index floor((n - 1) * p / 100) of the
\* samples sorted ascending, leaves the stored samples and their order as
\* they were, and returns what the call before it returned when that call
\* was made on the same samples with the same p.
C31_PercentileIndex ==
  [][pctCalls' # pctCalls =>
       /\ pctOut' = OrderStatistic(pctData',
                                   ((Len(pctData') - 1) * pctP') \div 100)
       /\ latencies' = latencies
       /\ timestamps' = timestamps
       /\ (pctCalls > 0 /\ pctData' = pctData /\ pctP' = pctP)
            => pctOut' = pctOut]_vars

\* The median was taken twice of four samples stored out of order, and it
\* is not the smallest of them.
C31_Witness ==
  /\ pctCalls = 2
  /\ pctP = 50
  /\ Len(pctData) = 4
  /\ pctData[1] > pctData[2]
  /\ pctOut > pctData[2]
  /\ latencies = pctData

\* C32: while the state is running the progress is at most 99 and no step
\* lowers it, in a first run and in a run started after an earlier one; it
\* is 100 only when the state is not running.
C32_ProgressBelowHundred ==
  [][/\ state' = "running" => progress' <= ProgressCap
     /\ (state = "running" /\ state' = "running") => progress' >= progress
     /\ progress' = ProgressDone => state' # "running"]_vars

\* C38: once a run was stopped and another started, no step of the earlier
\* run's goroutine writes the controller's state, search range or result.
C38_EarlierRunWritesNothing ==
  [][(restarts' = restarts /\ earlierPc' # earlierPc) =>
       UNCHANGED <<state, result, currentTPS, lowTPS, highTPS, lastStableTPS,
                   breakingTPS, stepsCompleted, progress>>]_vars

\* C37: in a run with 0 < min_tps <= max_tps, after every step
\* min_tps <= low <= current <= high <= max_tps, the step has not widened
\* high - low, and the last stable rate, when it and the breaking rate are
\* both set, is strictly below the breaking rate.
C37_SearchRange ==
  [][stepsCompleted' = stepsCompleted + 1 =>
       /\ dCfg.MinTPS <= lowTPS'
       /\ lowTPS' <= currentTPS'
       /\ currentTPS' <= highTPS'
       /\ highTPS' <= dCfg.MaxTPS
       /\ highTPS' - lowTPS' <= highTPS - lowTPS
       /\ (lastStableTPS' # 0 /\ breakingTPS' # 0)
            => lastStableTPS' < breakingTPS']_vars

\* Three steps were run, both ends of the range have moved, and a stable and
\* a breaking rate are both set.
C37_Witness ==
  /\ stepsCompleted >= 3
  /\ lastStableTPS # 0
  /\ breakingTPS # 0
  /\ lowTPS > dCfg.MinTPS
  /\ highTPS < dCfg.MaxTPS
  /\ lowTPS < currentTPS
  /\ currentTPS < highTPS

\* The error rate of the requests recorded since the step in progress began
\* (thousandths of a percent), as GetErrorRate computes it of all requests.
StepErrorRate ==
  LET stepRequests == totalRequests - startRequests
      stepErrors == totalErrors - startErrors
  IN IF stepRequests = 0 THEN 0
     ELSE (stepErrors * 100 * 1000) \div stepRequests

\* C39: the verdict of a step is the one its own requests give: the P95 of
\* the latencies recorded since the step's window reset and the error rate
\* of the requests recorded since then decide it, whatever was recorded
\* before the step.
C39_VerdictOfStepOnly ==
  [][stepsCompleted' = stepsCompleted + 1 =>
       (isStable(dCfg, snapshot'.P95Latency, snapshot'.ErrorRate)
          <=> isStable(dCfg, snapshot'.P95Latency, StepErrorRate))]_vars

\* C35: with health checking disabled every configured target counts as
\* healthy: a generate task that has selected a target goes on to submit a
\* job for it.
C35_DisabledCountsHealthy ==
  \A g \in Gens :
    (~cfg.health /\ genPc[g] = "check") => PassesHealthGate(genTarget[g])

\* C34: the client holds at most one open connection per authority, and no
\* worker's write of the connection cache is in progress while another
\* worker reads or writes it.
C34_OneConnectionPerAuthority ==
  /\ \A a \in Authorities : opened[a] <= 1
  /\ \A w \in ConnWorkers : connPc[w] = "store" => ~Overlaps(w, TRUE)

\* C36: a step of GetStatus changes neither the spike generator's state nor
\* the noise generator's, and the multipliers in the Status it returns are
\* the ones its CurrentTPS was computed from.
C36_StatusReadOnly ==
  [][statusPc' # statusPc =>
       /\ UNCHANGED <<spiking, spikeStart, spikePeak, spikeEnd, nextSpikeTime,
                      manualSpike>>
       /\ UNCHANGED <<currentValue, targetValue, velocity>>
       /\ statusPc' = 0 =>
            /\ status'.PoissonMultiplier = statusUsed[1]
            /\ status'.NoiseMultiplier = statusUsed[2]]_vars

\* C33: once the daemon's context is cancelled, the ramp-up, control and
\* generate tasks of every Start have returned in the end and
\* Controller.Stop has returned.
C33_TasksExitAfterCancel ==
  ctxDone ~> (/\ LiveRamps = {}
              /\ nControl = 0
              /\ LiveGenerators = {}
              /\ stopPc = "checker")

\* The context was cancelled on a triggered daemon whose generate task has
\* submitted, and Controller.Stop has returned.
C33_Witness ==
  /\ ctxDone
  /\ nStarts >= 1
  /\ lastSubmit # "none"
  /\ LiveRamps = {}
  /\ nControl = 0
  /\ LiveGenerators = {}
  /\ stopPc = "checker"

====
